---------------------------- MODULE Spec2Model ----------------------------
(***************************************************************************)
(* A state-machine model of the tecs entity-component-system core          *)
(* (src/tecs): type-erased columns, tables, the derived Archetype          *)
(* add/remove, the World (registration, spawn, despawn, queries, system    *)
(* dispatch) and the scene loader.                                         *)
(***************************************************************************)
EXTENDS Integers, Sequences, FiniteSets, TLC

(***************************************************************************)
(* Bounds of the model.                                                    *)
(***************************************************************************)
\* number of EntityIds a World may mint before the model stops minting
MaxIds == 3
\* component values are drawn from 1..MaxVal
MaxVal == 2
\* number of column borrows (Ref / RefMut) that may be alive together
MaxRefs == 3
\* number of Scene::load calls made on one World
MaxLoads == 1
\* number of rows one entry (one archetype's list) of a Scene::load input holds
MaxLoadRows == 1
\* number of systems a World may hold
MaxSystems == 2
\* number of tick / submit calls made from the start of an outermost one to
\* its return, itself included
MaxDispatches == 3
\* number of handles a Scene given to Scene::save records
MaxScene == 2
\* number of resource operations on record
MaxResOps == 4
\* number of push calls made on the columns on their own
MaxPushes == 3
\* number of Gather messages the game server handles
MaxGathers == 5
\* number of AuthRequest messages the game server handles
MaxClients == 2
\* length of the rarities list of a Craft message
MaxRarities == 1
\* number of frames the server writes to the client's connection
MaxFrames == 2

Values == 1..MaxVal

(***************************************************************************)
(* Component types and the concrete archetypes (record types deriving      *)
(* Archetype) the World is exercised with: T1 has components A and B,      *)
(* T2 has A only.  T3 has A and B like T1, its B field being marked         *)
(* #[serde(skip)] (as Player's health is): it is registered only where      *)
(* scenes are saved and loaded again.                                       *)
(***************************************************************************)
Types == {"A", "B"}

ArchetypeIds == {"T1", "T2"}

\* the archetypes with a field serde skips
SkippingIds == {"T3"}

\* the types resources are stored under
ResourceTypes == {"R", "U"}

\* Archetype::columns(): the field types in declaration order
Columns(t) ==
    CASE t = "T1" -> <<"A", "B">>
      [] t = "T2" -> <<"A">>
      [] t = "T3" -> <<"A", "B">>

\* the values of one record of archetype t, field by field
EntityValues(t) == [1..Len(Columns(t)) -> Values]

None == <<>>
Some(v) == <<v>>

VARIABLES
    next_id,      \* World.next_id
    entities,     \* World.entities: EntityId -> [table, row]
    archetypes,   \* World.archetypes: TypeId -> Table
    order,        \* iteration order of the archetypes HashMap
    borrows,      \* RefCell borrow state of every column: the Ref guards
                  \* (readers) and RefMut guards (writers) alive
    panicked,     \* "none", or what ended the running operation for good:
                  \* the panic that unwound it, or "read never returns"
    systems,      \* World.systems: the registered systems in registration order
    stack,        \* call stack of dispatch frames (tick / submit in progress)
    log,          \* callbacks invoked since the outermost dispatch began
    minted,       \* history: every EntityId handed out, in order
    vals,         \* history: the component values each live id was spawned with
                  \*          or last written to
    loaded,       \* history of the Scene::load calls: what each returned (ret,
                  \* and the Scene's entities) and the ids it minted
    document,     \* the map Scene::save last wrote, in the order written
    origin,       \* history: how far a save / reload has come and the entities
                  \* that were saved, per archetype
    resources,    \* World.resources: TypeId -> value
    resrefs,      \* RefCell borrow state of every resource
    reslog,       \* history: the resource operations that returned, with what
                  \*          they were given and what they returned
    vecs,         \* two columns on their own, created for the same type: one
                  \* with VecAny::new (typed), one with new_uninit (uninit)
    pushes,       \* history: the push calls made on both, in order
    connected,    \* the game server (hypnos): whether its clients map holds
                  \* the client
    next_client,  \* the server's counter of client ids (next)
    position,     \* the client's position (Vec3::ZERO is 0)
    inventory,    \* the client's Inventory: Item -> quantity
    equipment,    \* the client's EquipmentInventory
    next_equipment, \* the server's counter of equipment ids
    sent,         \* the Clientbound messages the last handled message sent
    gathers,      \* history: the number of Gather messages handled
    wire,         \* the game client's TCP stream: bytes written by the peer
                  \* that no read has returned yet
    buffer,       \* Connection.buffer
    bundles,      \* history: what every Connection::get returned Some of
    stopped,      \* the game client's State resource is State::Stopped
    frames        \* history: the number of frames the peer has written

worldVars == <<next_id, entities, archetypes, order, minted, vals>>
dispatchVars == <<systems, stack, log, loaded>>
sceneVars == <<document, origin>>
resourceVars == <<resources, resrefs, reslog>>
vecVars == <<vecs, pushes>>
serverVars == <<connected, next_client, position, inventory, equipment,
                next_equipment, sent, gathers>>
netVars == <<wire, buffer, bundles, stopped, frames>>
appVars == <<serverVars, netVars>>
restVars == <<sceneVars, resourceVars, vecVars, appVars>>
vars == <<next_id, entities, archetypes, order, borrows, panicked,
          systems, stack, log, minted, vals, loaded,
          document, origin, resources, resrefs, reslog, vecs, pushes,
          connected, next_client, position, inventory, equipment,
          next_equipment, sent, gathers, wire, buffer, bundles, stopped, frames>>

(***************************************************************************)
(* VecAny: a type-erased Vec.  ptr is FALSE while no buffer has been bound *)
(* (new_uninit), ty is the TypeId the column was created for.              *)
(***************************************************************************)
\* VecAny::from_vec::<T>(data): the buffer of the Vec is taken over
VecAnyFromVec(T, data) == [ptr |-> TRUE, ty |-> T, data |-> data]

\* VecAny::new::<T>()
VecAnyNew(T) == VecAnyFromVec(T, <<>>)

\* a new_uninit that allocates a buffer at once
VecAnyNewUninitAllocated(ty) == [ptr |-> TRUE, ty |-> ty, data |-> <<>>]

\* VecAny::new_uninit(ty): no buffer yet, the type fixed
VecAnyNewUninit(ty) == [ptr |-> FALSE, ty |-> ty, data |-> <<>>]

\* a push that does not look at the type the column is bound to
VecAnyPushUnchecked(v, T, item) ==
    [v EXCEPT !.ptr = TRUE, !.data = Append(@, item)]

\* VecAny::push::<T>(item) == run::<T>(|data| data.push(item))
VecAnyPush(v, T, item) ==
    IF v.ty # T THEN v
    ELSE [v EXCEPT !.ptr = TRUE, !.data = Append(@, item)]

\* Vec::swap_remove(i): the last element takes the place of element i
SwapRemoveSeq(s, i) ==
    [k \in 1..(Len(s) - 1) |-> IF k = i THEN s[Len(s)] ELSE s[k]]

\* VecAny::run::<T>(|data| { data.swap_remove(row); }) with row 0-based
VecAnySwapRemove(v, T, row) ==
    IF v.ty # T THEN v
    ELSE [v EXCEPT !.ptr = TRUE, !.data = SwapRemoveSeq(@, row + 1)]

\* a downcast_ref that has nothing to show while no buffer is allocated
VecAnyDowncastRefNeedsBuffer(v, T) ==
    IF v.ty # T \/ ~v.ptr THEN None ELSE Some(v.data)

\* VecAny::downcast_ref::<T>(): the live slice, or None on a type mismatch
VecAnyDowncastRef(v, T) == IF v.ty # T THEN None ELSE Some(v.data)

\* VecAny::downcast_mut::<T>(): the live slice, or None on a type mismatch
VecAnyDowncastMut(v, T) == IF v.ty # T THEN None ELSE Some(v.data)

\* two columns made for type T, one with VecAny::new::<T>() and one with
\* VecAny::new_uninit(TypeId::of::<T>())
VecNew(T) ==
    /\ vecs = <<>>
    /\ vecs' = [typed |-> VecAnyNew(T), uninit |-> VecAnyNewUninit(T), bound |-> T]
    /\ pushes' = <<>>
    /\ UNCHANGED <<worldVars, borrows, panicked, sceneVars, resourceVars, appVars>>
    /\ UNCHANGED dispatchVars

\* push::<T>(item) on both columns
VecPush(T, item) ==
    /\ vecs # <<>>
    /\ Len(pushes) < MaxPushes
    /\ vecs' = [vecs EXCEPT !.typed = VecAnyPush(@, T, item),
                            !.uninit = VecAnyPush(@, T, item)]
    /\ pushes' = Append(pushes, [ty |-> T, item |-> item])
    /\ UNCHANGED <<worldVars, borrows, panicked, sceneVars, resourceVars, appVars>>
    /\ UNCHANGED dispatchVars

(***************************************************************************)
(* Table                                                                   *)
(***************************************************************************)
\* Table::new / Table::new_unsaved: one empty column per declared type
TableNew(t, saved) ==
    [length |-> 0,
     columns |-> [k \in 1..Len(Columns(t)) |-> VecAnyNewUninit(Columns(t)[k])],
     saved |-> saved]

\* position of the first column of type T in the table, 0 when there is none
ColumnIndex(table, T) ==
    IF \E k \in 1..Len(table.columns) : table.columns[k].ty = T
    THEN CHOOSE k \in 1..Len(table.columns) :
            /\ table.columns[k].ty = T
            /\ \A j \in 1..(k - 1) : table.columns[j].ty # T
    ELSE 0

\* Table::has_column::<T>()
HasColumn(table, T) == ColumnIndex(table, T) # 0

\* Table::len()
TableLen(table) == table.length

(***************************************************************************)
(* The derived Archetype implementation (tecs_derive).  Both add and       *)
(* remove change table.length first and then walk the columns in           *)
(* declaration order, taking each RefCell with borrow_mut() for the        *)
(* duration of one statement; a column that is already borrowed panics     *)
(* there, leaving the earlier columns changed and the later ones not.      *)
(***************************************************************************)
\* no panic has unwound the program
Running == panicked = "none"

MinOf(S) == CHOOSE x \in S : \A y \in S : x <= y

\* a RefCell no guard of which is alive
Unborrowed == [readers |-> 0, writers |-> 0]

\* the first column whose borrow_mut() would panic, 0 when none is borrowed
FirstBorrowed(t) ==
    LET S == {k \in 1..Len(Columns(t)) : borrows[t][k] # Unborrowed}
    IN IF S = {} THEN 0 ELSE MinOf(S)

\* an add that pushes the first field only
ArchetypeAddFirstColumn(table, t, entity) ==
    [table EXCEPT
       !.length = @ + 1,
       !.columns = [k \in 1..Len(@) |->
                       IF k = 1 /\ FirstBorrowed(t) # 1
                       THEN VecAnyPush(@[k], Columns(t)[k], entity[k])
                       ELSE @[k]]]

\* Archetype::add: the table after the call (complete, or as left by the panic)
ArchetypeAdd(table, t, entity) ==
    LET stop == FirstBorrowed(t)
        done == IF stop = 0 THEN Len(table.columns) ELSE stop - 1
    IN [table EXCEPT
          !.length = @ + 1,
          !.columns = [k \in 1..Len(@) |->
                          IF k <= done
                          THEN VecAnyPush(@[k], Columns(t)[k], entity[k])
                          ELSE @[k]]]

\* the first column at which Archetype::remove panics, 0 when it completes:
\* the column is borrowed, or swap_remove's index is out of bounds
FirstRemoveFailure(table, t, row) ==
    LET S == {k \in 1..Len(table.columns) :
                 \/ borrows[t][k] # Unborrowed
                 \/ row >= Len(table.columns[k].data)}
    IN IF S = {} THEN 0 ELSE MinOf(S)

\* usize::MAX, 2^64 - 1, written as its residue -1 modulo 2^64: the length a
\* release build leaves when it takes 1 from a length of 0
UsizeMax == 0 - 1

\* what the n elements of a column read as once its buffer has been freed:
\* anything at all, 0 standing for every bit pattern that is none of Values
FreedReads(n) == [1..n -> {0} \cup Values]

\* the columns as Archetype::remove can leave them.  The columns before the
\* failing one have lost the row and the later ones are untouched.  A
\* swap_remove that panics does so inside VecAny::run, between from_raw_parts
\* and into_raw_parts: the unwinding drops the rebuilt Vec and frees the
\* buffer, while the VecAny keeps its ptr, len and cap, so a column that had
\* a buffer is left pointing at freed memory.
RemoveColumns(table, t, row) ==
    LET stop == FirstRemoveFailure(table, t, row)
        done == IF stop = 0 THEN Len(table.columns) ELSE stop - 1
        left == [k \in 1..Len(table.columns) |->
                    IF k <= done
                    THEN VecAnySwapRemove(table.columns[k], Columns(t)[k], row)
                    ELSE table.columns[k]]
    IN IF stop # 0 /\ borrows[t][stop] = Unborrowed /\ table.columns[stop].ptr
       THEN {[left EXCEPT ![stop].data = read] :
                read \in FreedReads(Len(table.columns[stop].data))}
       ELSE {left}

\* a remove that takes the row out of the first column only
ArchetypeRemoveFirstColumn(table, t, row) ==
    LET stop == FirstRemoveFailure(table, t, row)
    IN {[table |-> [table EXCEPT
                      !.length = @ - 1,
                      !.columns = [k \in 1..Len(@) |->
                                      IF k = 1 /\ stop # 1
                                      THEN VecAnySwapRemove(@[k], Columns(t)[k], row)
                                      ELSE @[k]]],
         end |-> IF stop = 0 THEN "ok"
                 ELSE IF borrows[t][stop] # Unborrowed THEN "already borrowed"
                 ELSE "swap_remove index out of bounds"]}

\* Archetype::remove: the outcomes of the call, each the table after it and
\* how it ended ("ok" or the panic).  On a table of length 0 a debug build
\* panics at `table.length - 1` with the table as it was and a release
\* build wraps the length and goes on to the columns.
ArchetypeRemove(table, t, row) ==
    LET stop == FirstRemoveFailure(table, t, row)
        end == IF stop = 0 THEN "ok"
               ELSE IF borrows[t][stop] # Unborrowed THEN "already borrowed"
               ELSE "swap_remove index out of bounds"
        length == IF table.length = 0 THEN UsizeMax ELSE table.length - 1
    IN (IF table.length = 0
        THEN {[table |-> table, end |-> "attempt to subtract with overflow"]}
        ELSE {})
       \cup {[table |-> [table EXCEPT !.length = length, !.columns = columns],
              end |-> end] : columns \in RemoveColumns(table, t, row)}

(***************************************************************************)
(* World                                                                   *)
(***************************************************************************)
Registered == DOMAIN archetypes
Live == DOMAIN entities

Restrict(f, S) == [x \in S |-> f[x]]
Extend(f, k, v) == [x \in DOMAIN f \cup {k} |-> IF x = k THEN v ELSE f[x]]

\* number of rows stored in all tables
TotalRows ==
    LET RECURSIVE Sum(_)
        Sum(S) == IF S = {} THEN 0
                  ELSE LET t == CHOOSE t \in S : TRUE
                       IN TableLen(archetypes[t]) + Sum(S \ {t})
    IN Sum(Registered)

\* how many more rows the model lets the World take: MaxIds bounds both the
\* ids minted and the rows stored
Room == IF TotalRows > next_id THEN MaxIds - TotalRows ELSE MaxIds - next_id

\* all orders in which a HashMap holding the keys S may iterate
Orders(S) ==
    {p \in [1..Cardinality(S) -> S] : \A i, j \in DOMAIN p : i # j => p[i] # p[j]}

\* World::default()
Init ==
    /\ next_id = 0
    /\ entities = <<>>
    /\ archetypes = <<>>
    /\ order = <<>>
    /\ borrows = [t \in ArchetypeIds \cup SkippingIds |->
                     [k \in 1..Len(Columns(t)) |-> Unborrowed]]
    /\ panicked = "none"
    /\ systems = <<>>
    /\ stack = <<>>
    /\ log = <<>>
    /\ minted = <<>>
    /\ vals = <<>>
    /\ loaded = <<>>
    /\ document = <<>>
    /\ origin = [phase |-> "none", rows |-> <<>>, count |-> <<>>]
    /\ resources = <<>>
    /\ resrefs = [T \in ResourceTypes |-> Unborrowed]
    /\ reslog = <<>>
    /\ vecs = <<>>
    /\ pushes = <<>>
    /\ connected = FALSE
    /\ next_client = 0
    /\ position = 0
    /\ inventory = <<>>
    /\ equipment = <<>>
    /\ next_equipment = 0
    /\ sent = <<>>
    /\ gathers = 0
    /\ wire = <<>>
    /\ buffer = <<>>
    /\ bundles = <<>>
    /\ stopped = FALSE
    /\ frames = 0

\* no guard of any column is alive
NoColumnGuards ==
    \A t \in DOMAIN borrows : \A k \in DOMAIN borrows[t] : borrows[t][k] = Unborrowed

\* World::register::<t>() (saved) and World::register_unsaved::<t>():
\* HashMap::insert of a fresh table under t's TypeId, replacing the table
\* stored under it if there is one.  The builder takes the World by value,
\* so no guard is alive and no dispatch is running.
Register(t, saved) ==
    /\ Running
    /\ NoColumnGuards
    /\ stack = <<>>
    /\ archetypes' = Extend(archetypes, t, TableNew(t, saved))
    /\ order' \in Orders(Registered \cup {t})
    /\ UNCHANGED <<next_id, entities, borrows, panicked, minted, vals>>
    /\ UNCHANGED dispatchVars
    /\ UNCHANGED restVars

\* the counter handing out an id without moving on
SuccessorOmitted(id) == id

\* the value the counter moves to once id is handed out:
\* next_id.set(next_id.get() + 1)
Successor(id) == id + 1

\* a spawn that maps the new id to the table's length after the push instead
\* of the row the record went to
SpawnRegisteredOffByOne(t, entity) ==
    LET store == ArchetypeAdd(archetypes[t], t, entity) IN
    /\ archetypes' = [archetypes EXCEPT ![t] = store]
    /\ IF FirstBorrowed(t) # 0
       THEN /\ panicked' = "already borrowed"
            /\ UNCHANGED <<next_id, entities, minted, vals>>
       ELSE /\ entities' = Extend(entities, next_id,
                                  [table |-> t, row |-> TableLen(store)])
            /\ next_id' = Successor(next_id)
            /\ minted' = Append(minted, next_id)
            /\ vals' = Extend(vals, next_id, entity)
            /\ UNCHANGED panicked

\* World::spawn::<t>(entity) past the registration check: the record is added
\* to the table and the next id is mapped to its row
SpawnRegistered(t, entity) ==
    LET store == ArchetypeAdd(archetypes[t], t, entity) IN
    /\ archetypes' = [archetypes EXCEPT ![t] = store]
    /\ IF FirstBorrowed(t) # 0
       THEN /\ panicked' = "already borrowed"
            /\ UNCHANGED <<next_id, entities, minted, vals>>
       ELSE /\ entities' = Extend(entities, next_id,
                                  [table |-> t, row |-> TableLen(store) - 1])
            /\ next_id' = Successor(next_id)
            /\ minted' = Append(minted, next_id)
            /\ vals' = Extend(vals, next_id, entity)
            /\ UNCHANGED panicked

\* a spawn that takes the next id before it looks for the table
SpawnMintingFirst(t, entity) ==
    /\ Running
    /\ Room > 0
    /\ IF t \notin Registered
       THEN /\ panicked' = "Unregistered archetype"
            /\ next_id' = Successor(next_id)
            /\ UNCHANGED <<entities, archetypes, minted, vals>>
       ELSE SpawnRegistered(t, entity)
    /\ UNCHANGED <<order, borrows>>
    /\ UNCHANGED dispatchVars
    /\ UNCHANGED restVars

\* World::spawn::<t>(entity)
Spawn(t, entity) ==
    /\ Running
    /\ Room > 0
    /\ IF t \notin Registered
       THEN /\ panicked' = "Unregistered archetype"
            /\ UNCHANGED <<next_id, entities, archetypes, minted, vals>>
       ELSE SpawnRegistered(t, entity)
    /\ UNCHANGED <<order, borrows>>
    /\ UNCHANGED dispatchVars
    /\ UNCHANGED restVars

\* a fix-up that moves every later row of the table down by one (as after
\* Vec::remove) instead of re-pointing the one that was swapped in
DespawnFixupShifting(ents, table_id, row, len) ==
    {[i \in DOMAIN ents |->
         IF ents[i].table = table_id /\ ents[i].row > row
         THEN [ents[i] EXCEPT !.row = @ - 1]
         ELSE ents[i]]}

\* the despawn fix-up scan without the re-pointing (mappings left as they are)
DespawnFixupOmitted(ents, table_id, row, len) == {ents}

\* the closing scan of World::despawn: the first mapping found with the table's
\* new length as its row is re-pointed to the vacated row.  The result is the
\* set of maps the scan can leave (one per mapping it may find first).
DespawnFixup(ents, table_id, row, len) ==
    LET found == {i \in DOMAIN ents :
                     ents[i].table = table_id /\ ents[i].row = len}
    IN IF found = {} THEN {ents}
       ELSE {[ents EXCEPT ![i].row = row] : i \in found}

\* World::despawn::<T>(id) once the id's mapping is found and removed
DespawnMapped(T, id) ==
    LET table_id == entities[id].table
        row == entities[id].row
        removed == Restrict(entities, Live \ {id})
    IN
    /\ vals' = Restrict(vals, DOMAIN vals \ {id})
    /\ UNCHANGED <<next_id, order, borrows, minted>>
    /\ IF table_id # T
       THEN /\ panicked' = "Despawn archetype mismatch"
            /\ entities' = removed
            /\ UNCHANGED archetypes
       ELSE IF table_id \notin Registered
       THEN /\ entities' = removed
            /\ UNCHANGED <<archetypes, panicked>>
       ELSE \E out \in ArchetypeRemove(archetypes[table_id], table_id, row) :
            /\ archetypes' = [archetypes EXCEPT ![table_id] = out.table]
            /\ IF out.end # "ok"
               THEN /\ panicked' = out.end
                    /\ entities' = removed
               ELSE /\ entities' \in
                           DespawnFixup(removed, table_id, row, TableLen(out.table))
                    /\ UNCHANGED panicked

\* a despawn that takes the last row out of T's table when the id has no
\* mapping
DespawnAbsentRemovesRow(T, id) ==
    /\ Running
    /\ IF id \notin Live
       THEN /\ IF T \in Registered /\ TableLen(archetypes[T]) > 0
               THEN \E out \in ArchetypeRemove(archetypes[T], T,
                                                TableLen(archetypes[T]) - 1) :
                        archetypes' = [archetypes EXCEPT ![T] = out.table]
               ELSE UNCHANGED archetypes
            /\ UNCHANGED <<next_id, entities, order, minted, vals, borrows, panicked>>
       ELSE DespawnMapped(T, id)
    /\ UNCHANGED dispatchVars
    /\ UNCHANGED restVars

\* World::despawn::<T>(id)
Despawn(T, id) ==
    /\ Running
    /\ IF id \notin Live
       THEN UNCHANGED <<worldVars, borrows, panicked>>
       ELSE DespawnMapped(T, id)
    /\ UNCHANGED dispatchVars
    /\ UNCHANGED restVars

\* World::get_component::<T>(id): the entity's T value, or None when the id has
\* no mapping, its table has no T column or the row is past the column's end
GetComponent(id, T) ==
    IF id \notin Live THEN None
    ELSE LET table == archetypes[entities[id].table]
             row == entities[id].row
             k == ColumnIndex(table, T)
         IN IF k = 0 THEN None
            ELSE IF row >= Len(table.columns[k].data) THEN None
            ELSE Some(table.columns[k].data[row + 1])

\* World::get_component_mut::<T>(id) followed by an assignment through the
\* returned RefMut, which is then dropped
SetComponent(id, T, v) ==
    /\ Running
    /\ id \in Live
    /\ entities[id].table \in Registered
    /\ LET t == entities[id].table
           row == entities[id].row
           k == ColumnIndex(archetypes[t], T)
       IN
       /\ IF k = 0
          THEN UNCHANGED <<archetypes, vals, panicked>>
          ELSE IF borrows[t][k] # Unborrowed
          THEN /\ panicked' = "already borrowed"
               /\ UNCHANGED <<archetypes, vals>>
          ELSE IF row >= Len(archetypes[t].columns[k].data)
          THEN UNCHANGED <<archetypes, vals, panicked>>
          ELSE /\ archetypes' =
                     [archetypes EXCEPT ![t].columns[k].data[row + 1] = v]
               /\ vals' = [vals EXCEPT ![id][k] = v]
               /\ UNCHANGED panicked
    /\ UNCHANGED <<next_id, entities, order, borrows, minted>>
    /\ UNCHANGED dispatchVars
    /\ UNCHANGED restVars

(***************************************************************************)
(* Column borrows: Table::column / Table::column_mut hand out Ref / RefMut *)
(* guards over one column's RefCell.                                       *)
(***************************************************************************)
\* number of guards alive
RefsAlive ==
    LET n(t, k) == borrows[t][k].readers + borrows[t][k].writers
        cols == UNION {{<<t, k>> : k \in 1..Len(Columns(t))} : t \in DOMAIN borrows}
        RECURSIVE Sum(_)
        Sum(S) == IF S = {} THEN 0
                  ELSE LET c == CHOOSE c \in S : TRUE
                       IN n(c[1], c[2]) + Sum(S \ {c})
    IN Sum(cols)

\* RefCell::borrow() succeeds unless a RefMut is alive
BorrowOk(cell) == cell.writers = 0

\* a borrow_mut() that looks for writers only
BorrowMutIgnoringReaders(cell) == cell.writers = 0

\* RefCell::borrow_mut() succeeds only when no guard at all is alive
BorrowMutOk(cell) == cell.writers = 0 /\ cell.readers = 0

\* the column of id's table that holds T (0: none), for a mapped id
ComponentColumn(id, T) == ColumnIndex(archetypes[entities[id].table], T)

\* a get_component that unwraps the lookup of the id
GetComponentPanicsOnAbsent(id, T) ==
    \/ id \notin Live
    \/ /\ id \in Live
       /\ \/ entities[id].table \notin Registered
          \/ /\ ComponentColumn(id, T) # 0
             /\ borrows[entities[id].table][ComponentColumn(id, T)].writers > 0

\* whether World::get_component::<T>(id) panics: the id is mapped to a table
\* that is not registered, or the column is mutably borrowed (Table::column
\* calls RefCell::borrow)
GetComponentPanics(id, T) ==
    /\ id \in Live
    /\ \/ entities[id].table \notin Registered
       \/ /\ ComponentColumn(id, T) # 0
          /\ ~BorrowOk(borrows[entities[id].table][ComponentColumn(id, T)])

\* whether World::get_component_mut::<T>(id) panics: as get_component, the
\* column being borrowed in any way (Table::column_mut calls borrow_mut)
GetComponentMutPanics(id, T) ==
    /\ id \in Live
    /\ \/ entities[id].table \notin Registered
       \/ /\ ComponentColumn(id, T) # 0
          /\ ~BorrowMutOk(borrows[entities[id].table][ComponentColumn(id, T)])

\* World::get_component_mut::<T>(id) when it does not panic: the value under
\* the RefMut returned, or None (the same lookups as get_component)
GetComponentMut(id, T) == GetComponent(id, T)

\* Table::column::<T>() on the table of archetype t, keeping the Ref alive
TableColumn(t, T) ==
    /\ Running
    /\ t \in Registered
    /\ RefsAlive < MaxRefs
    /\ LET k == ColumnIndex(archetypes[t], T) IN
       IF k = 0
       THEN UNCHANGED <<borrows, panicked>>
       ELSE IF BorrowOk(borrows[t][k])
       THEN /\ borrows' = [borrows EXCEPT ![t][k].readers = @ + 1]
            /\ UNCHANGED panicked
       ELSE /\ panicked' = "already mutably borrowed"
            /\ UNCHANGED borrows
    /\ UNCHANGED worldVars
    /\ UNCHANGED dispatchVars
    /\ UNCHANGED restVars

\* Table::column_mut::<T>() on the table of archetype t, keeping the RefMut alive
TableColumnMut(t, T) ==
    /\ Running
    /\ t \in Registered
    /\ RefsAlive < MaxRefs
    /\ LET k == ColumnIndex(archetypes[t], T) IN
       IF k = 0
       THEN UNCHANGED <<borrows, panicked>>
       ELSE IF BorrowMutOk(borrows[t][k])
       THEN /\ borrows' = [borrows EXCEPT ![t][k].writers = @ + 1]
            /\ UNCHANGED panicked
       ELSE /\ panicked' = "already borrowed"
            /\ UNCHANGED borrows
    /\ UNCHANGED worldVars
    /\ UNCHANGED dispatchVars
    /\ UNCHANGED restVars

\* dropping one Ref (mut = FALSE) or RefMut (mut = TRUE) guard of column k of
\* table t
DropRef(t, k, mut) ==
    /\ Running
    /\ k \in DOMAIN borrows[t]
    /\ IF mut
       THEN /\ borrows[t][k].writers > 0
            /\ borrows' = [borrows EXCEPT ![t][k].writers = @ - 1]
       ELSE /\ borrows[t][k].readers > 0
            /\ borrows' = [borrows EXCEPT ![t][k].readers = @ - 1]
    /\ UNCHANGED <<worldVars, panicked>>
    /\ UNCHANGED dispatchVars
    /\ UNCHANGED restVars

(***************************************************************************)
(* Resources.  World.resources maps a TypeId to an Rc<RefCell<dyn Any>>    *)
(* that nothing else holds: one value per type.  with_resource takes the    *)
(* World by value and remove takes it by &mut, so neither can be called     *)
(* while a Ref or RefMut handed out by get / get_mut is alive.              *)
(***************************************************************************)
\* no guard of any resource is alive
NoResourceGuards == \A T \in ResourceTypes : resrefs[T] = Unborrowed

\* the number of resource guards alive
ResourceGuards ==
    LET RECURSIVE Sum(_)
        Sum(S) == IF S = {} THEN 0
                  ELSE LET T == CHOOSE x \in S : TRUE
                       IN resrefs[T].readers + resrefs[T].writers + Sum(S \ {T})
    IN Sum(ResourceTypes)

\* an insert that keeps the value already stored under the key
ResourceInsertKeepingFirst(res, T, v) ==
    IF T \in DOMAIN res THEN res ELSE Extend(res, T, v)

\* HashMap::insert on World.resources: the value stored under T is now v
ResourceInsert(res, T, v) == Extend(res, T, v)

\* a remove that hands the value out and keeps it stored
ResourceRemoveKeeping(res, T) == res

\* HashMap::remove on World.resources
ResourceRemove(res, T) == Restrict(res, DOMAIN res \ {T})

\* World::with_resource(value)
WithResource(T, v) ==
    /\ Running
    /\ Len(reslog) < MaxResOps
    /\ NoResourceGuards
    /\ stack = <<>>
    /\ resources' = ResourceInsert(resources, T, v)
    /\ reslog' = Append(reslog, [op |-> "with_resource", ty |-> T,
                                 arg |-> Some(v), res |-> None])
    /\ UNCHANGED <<worldVars, borrows, panicked, resrefs, sceneVars, vecVars, appVars>>
    /\ UNCHANGED dispatchVars

\* World::get::<T>(): None when nothing is stored under T, else a Ref of the
\* value (RefCell::borrow panics while a RefMut of it is alive)
Get(T) ==
    /\ Running
    /\ Len(reslog) < MaxResOps
    /\ ResourceGuards < MaxRefs
    /\ IF T \notin DOMAIN resources
       THEN /\ reslog' = Append(reslog, [op |-> "get", ty |-> T,
                                         arg |-> None, res |-> None])
            /\ UNCHANGED <<resrefs, panicked>>
       ELSE IF ~BorrowOk(resrefs[T])
       THEN /\ panicked' = "already mutably borrowed"
            /\ UNCHANGED <<resrefs, reslog>>
       ELSE /\ resrefs' = [resrefs EXCEPT ![T].readers = @ + 1]
            /\ reslog' = Append(reslog, [op |-> "get", ty |-> T,
                                         arg |-> None, res |-> Some(resources[T])])
            /\ UNCHANGED panicked
    /\ UNCHANGED <<worldVars, borrows, resources, sceneVars, vecVars, appVars>>
    /\ UNCHANGED dispatchVars

\* World::get_mut::<T>(): None when nothing is stored under T, else a RefMut
\* of the value (RefCell::borrow_mut panics while any guard of it is alive)
GetMut(T) ==
    /\ Running
    /\ Len(reslog) < MaxResOps
    /\ ResourceGuards < MaxRefs
    /\ IF T \notin DOMAIN resources
       THEN /\ reslog' = Append(reslog, [op |-> "get_mut", ty |-> T,
                                         arg |-> None, res |-> None])
            /\ UNCHANGED <<resrefs, panicked>>
       ELSE IF ~BorrowMutOk(resrefs[T])
       THEN /\ panicked' = "already borrowed"
            /\ UNCHANGED <<resrefs, reslog>>
       ELSE /\ resrefs' = [resrefs EXCEPT ![T].writers = @ + 1]
            /\ reslog' = Append(reslog, [op |-> "get_mut", ty |-> T,
                                         arg |-> None, res |-> Some(resources[T])])
            /\ UNCHANGED panicked
    /\ UNCHANGED <<worldVars, borrows, resources, sceneVars, vecVars, appVars>>
    /\ UNCHANGED dispatchVars

\* an assignment through a RefMut returned by get_mut::<T>()
WriteResource(T, v) ==
    /\ Running
    /\ Len(reslog) < MaxResOps
    /\ resrefs[T].writers > 0
    /\ resources' = [resources EXCEPT ![T] = v]
    /\ reslog' = Append(reslog, [op |-> "write", ty |-> T,
                                 arg |-> Some(v), res |-> None])
    /\ UNCHANGED <<worldVars, borrows, panicked, resrefs, sceneVars, vecVars, appVars>>
    /\ UNCHANGED dispatchVars

\* dropping one Ref (mut = FALSE) or RefMut (mut = TRUE) of the resource T
DropResRef(T, mut) ==
    /\ Running
    /\ IF mut
       THEN /\ resrefs[T].writers > 0
            /\ resrefs' = [resrefs EXCEPT ![T].writers = @ - 1]
       ELSE /\ resrefs[T].readers > 0
            /\ resrefs' = [resrefs EXCEPT ![T].readers = @ - 1]
    /\ UNCHANGED <<worldVars, borrows, panicked, resources, reslog, sceneVars, vecVars, appVars>>
    /\ UNCHANGED dispatchVars

\* World::remove::<T>(): the entry is taken out of the map and, the Rc being
\* the only one, its value is returned; None when nothing is stored under T
Remove(T) ==
    /\ Running
    /\ Len(reslog) < MaxResOps
    /\ NoResourceGuards
    /\ resources' = ResourceRemove(resources, T)
    /\ reslog' = Append(reslog, [op |-> "remove", ty |-> T, arg |-> None,
                                 res |-> IF T \in DOMAIN resources
                                         THEN Some(resources[T]) ELSE None])
    /\ UNCHANGED <<worldVars, borrows, panicked, resrefs, sceneVars, vecVars, appVars>>
    /\ UNCHANGED dispatchVars

(***************************************************************************)
(* Query algebra.  A query is a tuple of slots; a slot is one of           *)
(*   &T, &mut T, With<T>, Without<T>, Is<A>, Option<&T>, EntityId.         *)
(***************************************************************************)
QRef(T)     == [kind |-> "ref", arg |-> T]
QMut(T)     == [kind |-> "mut", arg |-> T]
QWith(T)    == [kind |-> "with", arg |-> T]
QWithout(T) == [kind |-> "without", arg |-> T]
QIs(a)      == [kind |-> "is", arg |-> a]
QOpt(T)     == [kind |-> "opt", arg |-> T]
QEntity     == [kind |-> "entity", arg |-> "-"]

\* slot filters in which Without is not negated
SlotFilterWithoutAsWith(slot, ty) ==
    CASE slot.kind \in {"ref", "mut", "with", "without"} ->
             HasColumn(archetypes[ty], slot.arg)
      [] slot.kind = "is" -> ty = slot.arg
      [] slot.kind \in {"opt", "entity"} -> TRUE

\* Query::filter of one slot on the table registered under ty
SlotFilter(slot, ty) ==
    CASE slot.kind \in {"ref", "mut", "with"} -> HasColumn(archetypes[ty], slot.arg)
      [] slot.kind = "without" -> ~HasColumn(archetypes[ty], slot.arg)
      [] slot.kind = "is" -> ty = slot.arg
      [] slot.kind \in {"opt", "entity"} -> TRUE

\* a tuple filter joining its slots' filters with || in place of &&
TupleFilterAny(q, ty) == \E i \in 1..Len(q) : SlotFilter(q[i], ty)

\* impl_query!: the tuple's filter is the conjunction of its slots' filters
TupleFilter(q, ty) == \A i \in 1..Len(q) : SlotFilter(q[i], ty)

\* World::query: the tables the tuple's filter keeps, in the map's iteration order
QueryTables(q) == SelectSeq(order, LAMBDA ty : TupleFilter(q, ty))

RECURSIVE Flatten(_)
\* Iterator::flat_map over a sequence of sequences
Flatten(ss) == IF ss = <<>> THEN <<>> ELSE Head(ss) \o Flatten(Tail(ss))

\* what a view holds in place of its items when building it panicked:
\* table.column::<T>().unwrap() on a table without a T column
Unwrapped == [table |-> "unwrap on None", col |-> 0, row |-> 0]

\* the items of one column slice: references to its cells, in row order
SliceItems(ty, k) ==
    IF k = 0 THEN <<Unwrapped>>
    ELSE [r \in 1..Len(archetypes[ty].columns[k].data) |->
            [table |-> ty, col |-> k, row |-> r - 1]]

\* the value a reference yielded by a view points at
Deref(item) == archetypes[item.table].columns[item.col].data[item.row + 1]

\* Query::data for &T and &mut T followed by Columns::iter / ColumnsMut::iter:
\* table.column::<T>().unwrap() of every kept table, flat-mapped
ColumnsIter(tables, T) ==
    Flatten([i \in 1..Len(tables) |->
                SliceItems(tables[i], ColumnIndex(archetypes[tables[i]], T))])

RECURSIVE FindAtCount(_, _)
\* Iterator::find with the closure of ColumnsMut::get_mut: the counter is
\* decremented once per item passed over, the item met at zero is returned
FindAtCount(items, index) ==
    IF items = <<>> THEN None
    ELSE IF index = 0 THEN Some(Head(items))
    ELSE FindAtCount(Tail(items), index - 1)

\* a get_mut that indexes the first table's column only
ColumnsMutGetMutFirstTable(tables, T, index) ==
    IF tables = <<>> THEN None
    ELSE FindAtCount(SliceItems(tables[1], ColumnIndex(archetypes[tables[1]], T)), index)

\* ColumnsMut::get_mut(index) on the view Query::data for &mut T builds from
\* the kept tables: find over the flat-mapped columns
ColumnsMutGetMut(tables, T, index) == FindAtCount(ColumnsIter(tables, T), index)

\* ColumnsMut::first() on that view: columns.first_mut().and_then(first_mut),
\* the first element of the first table's column
ColumnsMutFirst(tables, T) ==
    IF tables = <<>> THEN None
    ELSE LET items == SliceItems(tables[1], ColumnIndex(archetypes[tables[1]], T))
         IN IF items = <<>> THEN None ELSE Some(items[1])

\* World::query_one: the tables the tuple's QueryOne::filter keeps, in the
\* map's iteration order
QueryOneTables(q) == SelectSeq(order, LAMBDA ty : TupleFilter(q, ty))

\* the first of the tables that has a first element in its column of T
\* (find_map), as a sequence of at most one table
FirstWithRow(tables, T) ==
    LET hit == SelectSeq(tables, LAMBDA ty :
                   /\ ColumnIndex(archetypes[ty], T) # 0
                   /\ archetypes[ty].columns[ColumnIndex(archetypes[ty], T)].data # <<>>)
    IN IF hit = <<>> THEN <<>> ELSE <<hit[1]>>

\* a QueryOne::data whose &mut T takes the last table that has a row
QueryOneDataMutFromEnd(slot, tables) ==
    LET rev == [i \in 1..Len(tables) |-> tables[Len(tables) + 1 - i]]
        hit == FirstWithRow(IF slot.kind = "mut" THEN rev ELSE tables, slot.arg)
    IN IF hit = <<>> THEN Unwrapped
       ELSE [table |-> hit[1], col |-> ColumnIndex(archetypes[hit[1]], slot.arg), row |-> 0]

\* QueryOne::data of a &T or &mut T slot: the first element of the column of
\* the first table that has one; find_map(..).unwrap() panics when none has
QueryOneData(slot, tables) ==
    LET hit == FirstWithRow(tables, slot.arg)
    IN IF hit = <<>> THEN Unwrapped
       ELSE [table |-> hit[1], col |-> ColumnIndex(archetypes[hit[1]], slot.arg), row |-> 0]

\* the query_one tuples of two data slots, on their own and with an Is
OneQueries ==
    LET data == {QRef(T) : T \in Types} \cup {QMut(T) : T \in Types}
        pairs == {<<a, b>> : a \in data, b \in data}
    IN {p \in pairs : (p[1].arg = p[2].arg) => (p[1].kind = "ref" /\ p[2].kind = "ref")}
       \cup {<<p[1], p[2], QIs(a)>> : p \in {x \in pairs : x[1].arg # x[2].arg},
                                       a \in ArchetypeIds \cup SkippingIds}

\* the data slots of a tuple
DataSlots(q) == {i \in 1..Len(q) : q[i].kind \in {"ref", "mut"}}

RECURSIVE QueryOneScan(_, _, _, _)
\* find_map of a &T / &mut T slot over the tables from the n-th on, with the
\* guards b alive: Table::column / column_mut borrows the table's column
\* (panicking on a conflict); the guard of a column without a first element
\* is dropped (filter_map gives Err, ok() drops it) and the next table is
\* tried; the guard of the first column that has one is kept.  With no table
\* left, unwrap() panics.
QueryOneScan(slot, tables, n, b) ==
    IF n > Len(tables) THEN [end |-> "unwrap on None", borrows |-> b]
    ELSE LET ty == tables[n]
             k == ColumnIndex(archetypes[ty], slot.arg)
         IN IF k = 0 THEN QueryOneScan(slot, tables, n + 1, b)
            ELSE IF slot.kind = "ref" /\ ~BorrowOk(b[ty][k])
            THEN [end |-> "already mutably borrowed", borrows |-> b]
            ELSE IF slot.kind = "mut" /\ ~BorrowMutOk(b[ty][k])
            THEN [end |-> "already borrowed", borrows |-> b]
            ELSE IF archetypes[ty].columns[k].data = <<>>
            THEN QueryOneScan(slot, tables, n + 1, b)
            ELSE [end |-> "ok",
                  borrows |-> IF slot.kind = "ref"
                              THEN [b EXCEPT ![ty][k].readers = @ + 1]
                              ELSE [b EXCEPT ![ty][k].writers = @ + 1]]

RECURSIVE QueryOneSlots(_, _, _, _)
\* impl_query_one! data: the slots' data are taken from left to right, each
\* with the guards of the slots before it alive (filters have no data)
QueryOneSlots(q, i, tables, b) ==
    IF i > Len(q) THEN [end |-> "ok", borrows |-> b]
    ELSE IF q[i].kind \notin {"ref", "mut"} THEN QueryOneSlots(q, i + 1, tables, b)
    ELSE LET r == QueryOneScan(q[i], tables, 1, b)
         IN IF r.end # "ok" THEN r ELSE QueryOneSlots(q, i + 1, tables, r.borrows)

\* an unwinding that leaves the guards of the slots already built alive
QueryOneUnwindLeaking(before, r) == r.borrows

\* the guards alive once a panic inside query_one has unwound: the outputs
\* of the slots built before it are dropped, those alive before remain
QueryOneUnwind(before, r) == before

\* World::query_one::<q>(), the outputs being kept alive by the caller
QueryOne(q) ==
    /\ Running
    /\ RefsAlive + Cardinality(DataSlots(q)) <= MaxRefs
    /\ LET r == QueryOneSlots(q, 1, QueryOneTables(q), borrows) IN
       IF r.end = "ok"
       THEN /\ borrows' = r.borrows
            /\ UNCHANGED panicked
       ELSE /\ panicked' = r.end
            /\ borrows' = QueryOneUnwind(borrows, r)
    /\ UNCHANGED worldVars
    /\ UNCHANGED dispatchVars
    /\ UNCHANGED restVars

\* an absent item of an Option<&T> view
Absent == [table |-> "-", col |-> 0, row |-> 0]

\* an Option<&T> view that yields nothing for a table without a T column
ColumnsOptionalIterNoPlaceholder(tables, T) ==
    Flatten([i \in 1..Len(tables) |->
                LET k == ColumnIndex(archetypes[tables[i]], T) IN
                IF k # 0 THEN SliceItems(tables[i], k) ELSE <<>>])

\* Query::data for Option<&T> followed by ColumnsOptional::iter: per kept table
\* Ok(slice) mapped to Some(item), or Err(table.len()) expanded to that many None
ColumnsOptionalIter(tables, T) ==
    Flatten([i \in 1..Len(tables) |->
                LET k == ColumnIndex(archetypes[tables[i]], T) IN
                IF k # 0 THEN SliceItems(tables[i], k)
                ELSE [r \in 1..TableLen(archetypes[tables[i]]) |-> Absent]])

\* positions counted from row 1 (1..=len in place of 0..len)
EntityPositionsFromOne(tables) ==
    Flatten([i \in 1..Len(tables) |->
                [r \in 1..TableLen(archetypes[tables[i]]) |->
                    [table |-> tables[i], row |-> r]]])

\* the (table, row) positions Query::data for EntityId looks up, in order
EntityPositions(tables) ==
    Flatten([i \in 1..Len(tables) |->
                [r \in 1..TableLen(archetypes[tables[i]]) |->
                    [table |-> tables[i], row |-> r - 1]]])

\* the ids whose mapping is the given position
IdsAt(pos) == {id \in Live : entities[id].table = pos.table /\ entities[id].row = pos.row}

\* Query::data for EntityId: per position the first mapping the scan of the
\* identity map finds (positions without one are skipped).  The result is the
\* set of lists the scan can produce.
EntityIdData(tables) ==
    LET found == SelectSeq(EntityPositions(tables), LAMBDA pos : IdsAt(pos) # {})
        RECURSIVE Lists(_)
        Lists(n) == IF n = 0 THEN {<<>>}
                    ELSE {Append(ids, id) : ids \in Lists(n - 1), id \in IdsAt(found[n])}
    IN Lists(Len(found))

(***************************************************************************)
(* Scene::load.  The input is a map in document order: a sequence of       *)
(* entries [key, rows, trunc] where key stands for the hash of an          *)
(* archetype's TypeId ("Unknown": the hash of no registered type), rows    *)
(* are the serialized rows and trunc says that the row sequence ends in a  *)
(* deserializer error instead of its closing delimiter.                    *)
(***************************************************************************)
\* a serialized row no record type deserializes from
Malformed == <<>>

\* the fields of archetype t marked #[serde(skip)]
Skipped(t) == IF t \in SkippingIds THEN {2} ELSE {}

\* the fields of archetype t that are serialized, in declaration order
Kept(t) == SelectSeq([k \in 1..Len(Columns(t)) |-> k], LAMBDA k : k \notin Skipped(t))

\* Default::default() of a skipped field's type
DefaultValue == MinOf(Values)

\* <T as Serialize>::serialize (derived): the values of the fields not skipped
Serialize(t, entity) == [i \in 1..Len(Kept(t)) |-> entity[Kept(t)[i]]]

\* <T as Deserialize>::deserialize succeeds on the rows that carry a value
\* for every serialized field of T.  A row is the values of those fields in
\* declaration order, followed by the values it carries under keys that are
\* no serialized field of T (the derived visitor skips them: there is no
\* deny_unknown_fields).
Deserializes(t, row) ==
    /\ Len(row) >= Len(Kept(t))
    /\ \A i \in 1..Len(Kept(t)) : row[i] \in Values

\* <T as Deserialize>::deserialize (derived): the fields read back in order,
\* the skipped ones set to their default
Deserialize(t, row) ==
    [k \in 1..Len(Columns(t)) |->
        IF k \in Skipped(t) THEN DefaultValue
        ELSE row[CHOOSE i \in 1..Len(Kept(t)) : Kept(t)[i] = k]]

RECURSIVE VisitSeq(_, _, _, _)
\* EntitiesSeed::visit_seq on the table of archetype t: every row is
\* deserialized and added (DeserializeArchetype::deserialize unwraps the
\* result).  Yields the table, the rows added (the RowIndex add returned and,
\* for the history, the values) and how the walk ended.
VisitSeq(table, t, rows, added) ==
    IF rows = <<>> THEN [table |-> table, added |-> added, end |-> "ok"]
    ELSE IF ~Deserializes(t, Head(rows))
    THEN [table |-> table, added |-> added, end |-> "unwrap on Err"]
    ELSE IF FirstBorrowed(t) # 0
    THEN [table |-> ArchetypeAdd(table, t, Deserialize(t, Head(rows))),
          added |-> added, end |-> "already borrowed"]
    ELSE LET store == ArchetypeAdd(table, t, Deserialize(t, Head(rows)))
         IN VisitSeq(store, t, Tail(rows),
                     Append(added, [row |-> TableLen(store) - 1,
                                    entity |-> Deserialize(t, Head(rows))]))

RECURSIVE MintRows(_, _, _)
\* the closing loop of one map entry: a fresh EntityId per row added
MintRows(w, t, added) ==
    IF added = <<>> THEN w
    ELSE LET n == Head(added).row
         IN MintRows([w EXCEPT
                        !.ents = Extend(@, w.next, [table |-> t, row |-> n]),
                        !.vals = Extend(@, w.next, Head(added).entity),
                        !.minted = Append(@, w.next),
                        !.local = Append(@, w.next),
                        !.next = Successor(@)],
                     t, Tail(added))

RECURSIVE VisitMap(_, _)
\* ArchetypesSeed::visit_map over the remaining entries
VisitMap(w, input) ==
    IF input = <<>> THEN [w EXCEPT !.end = "Ok"]
    ELSE LET e == Head(input) IN
         IF e.key \notin DOMAIN w.arch
         THEN [w EXCEPT !.end = "Missing archetype needed to deserialize scene"]
         ELSE IF ~w.arch[e.key].saved
         THEN [w EXCEPT !.end = "unwrap on None"]
         ELSE LET r == VisitSeq(w.arch[e.key], e.key, e.rows, <<>>)
                  w1 == [w EXCEPT !.arch[e.key] = r.table]
              IN IF r.end # "ok" THEN [w1 EXCEPT !.end = r.end]
                 ELSE IF e.trunc THEN [w1 EXCEPT !.end = "Err"]
                 ELSE VisitMap(MintRows(w1, e.key, r.added), Tail(input))

Min(a, b) == IF a < b THEN a ELSE b

\* at most n well-formed rows of archetype t with field values among V,
\* each with the serialized fields alone or with one more key after them
GoodRows(t, n, V) ==
    LET fields == [1..Len(Kept(t)) -> V]
        rows == fields \cup {Append(row, MinOf(V)) : row \in fields}
    IN UNION {[1..k -> rows] : k \in 0..n}

\* entries the loader reads to their end and goes on from
CompleteEntries(keys, n, V) ==
    UNION {{[key |-> t, rows |-> rows, trunc |-> FALSE] : rows \in GoodRows(t, Min(n, MaxLoadRows), V)} :
              t \in keys \cap ArchetypeIds}

\* entries at which the loader stops: an unknown key, a row sequence cut
\* short, or a malformed row (what follows any of these is never read)
FailingEntries(keys, n, V) ==
    UNION {{[key |-> t, rows |-> rows, trunc |-> TRUE] :
                 rows \in GoodRows(t, Min(n, MaxLoadRows), V)} :
              t \in keys \cap ArchetypeIds}
    \cup UNION {{[key |-> t, rows |-> Append(rows, Malformed), trunc |-> FALSE] :
                     rows \in GoodRows(t, Min(n, MaxLoadRows) - 1, V)} :
                  t \in keys \cap ArchetypeIds}
    \cup {[key |-> k, rows |-> <<>>, trunc |-> FALSE] : k \in keys \ ArchetypeIds}

RECURSIVE InputsOver(_, _, _)
\* the maps with distinct keys among keys that hold at most n rows in all
InputsOver(keys, n, V) ==
    {<<>>}
    \cup {<<e>> : e \in FailingEntries(keys, n, V)}
    \cup UNION {{<<e>> \o rest : rest \in InputsOver(keys \ {e.key}, n - Len(e.rows), V)} :
                  e \in CompleteEntries(keys, n, V)}

\* the inputs given to Scene::load when n more ids may be minted, with field
\* values among V
LoadInputs(n, V) == InputsOver(ArchetypeIds \cup {"Unknown"}, n, V)

\* the input has a key that is the hash of no registered table
HasUnknownKey(input) == \E i \in DOMAIN input : input[i].key \notin Registered

\* the input has, under the key of a registered table, a row the table's
\* archetype does not deserialize from
HasMalformedRow(input) ==
    \E i \in DOMAIN input :
        /\ input[i].key \in Registered
        /\ \E j \in DOMAIN input[i].rows : ~Deserializes(input[i].key, input[i].rows[j])

\* Scene::load(world, deserializer); result is "Ok", "Err" or the panic.  The
\* history keeps, per call, what the input was like, the result, the handles
\* of the Scene returned and the ids minted.
Load(input) ==
    /\ Running
    /\ Room > 0
    /\ Len(loaded) < MaxLoads
    /\ LET w == VisitMap([arch |-> archetypes, ents |-> entities, next |-> next_id,
                          minted |-> minted, vals |-> vals, local |-> <<>>,
                          end |-> "-"], input)
       IN /\ archetypes' = w.arch
          /\ entities' = w.ents
          /\ next_id' = w.next
          /\ minted' = w.minted
          /\ vals' = w.vals
          /\ panicked' = IF w.end \in {"Ok", "Err"} THEN "none" ELSE w.end
          /\ loaded' = Append(loaded,
                 [ret |-> IF w.end \in {"Ok", "Err"} THEN w.end ELSE "panic",
                  scene |-> <<>>, ids |-> w.local,
                  unknown |-> HasUnknownKey(input),
                  malformed |-> HasMalformedRow(input)])
    /\ UNCHANGED <<order, borrows, systems, stack, log>>
    /\ UNCHANGED restVars

(***************************************************************************)
(* Scene save.  A Scene is a list of handles (Scene::add pushes, so a       *)
(* handle may be recorded more than once).  save drops the handles without  *)
(* a mapping, groups the rows of the others by table (keeping the order of  *)
(* the list within a table), reads every row with Archetype::get and        *)
(* serializes the map from the hash of each table's TypeId to its rows; a   *)
(* HashMap iterates in no particular order.  What save writes is kept in    *)
(* document, in the shape Scene::load takes its input.                      *)
(***************************************************************************)
\* the scenes Scene::add can build from the handles minted so far
Scenes == UNION {[1..n -> 0..(MaxIds - 1)] : n \in 0..MaxScene}

\* the handles with a mapping, of which only the first is kept
LiveHandlesFirstOnly(scene) ==
    LET live == SelectSeq(scene, LAMBDA id : id \in Live)
    IN IF live = <<>> THEN <<>> ELSE <<live[1]>>

\* the handles of a scene that have a mapping (filter_map over entities.get)
LiveHandles(scene) == SelectSeq(scene, LAMBDA id : id \in Live)

\* the handles of a scene mapped to table t, in the scene's order
HandlesOf(scene, t) == SelectSeq(LiveHandles(scene), LAMBDA id : entities[id].table = t)

\* entity_map's keys: the tables some handle of the scene is mapped to
SceneTables(scene) == {t \in Registered \cup {entities[id].table : id \in Live} :
                          HandlesOf(scene, t) # <<>>}

\* Archetype::get reading the first row whatever row is asked for
ArchetypeGetFirstRow(table, t, row) ==
    [k \in 1..Len(Columns(t)) |-> table.columns[k].data[1]]

\* <t as Archetype>::get(table, row): a clone of every field at that row
ArchetypeGet(table, t, row) ==
    [k \in 1..Len(Columns(t)) |-> table.columns[k].data[row + 1]]

\* save's panics when every table is taken to have a serializer bound
SavePanicsSerializerBound(scene) ==
    {"unwrap on None" : t \in {u \in SceneTables(scene) : u \notin Registered}}
    \cup UNION {UNION {
            {"already mutably borrowed" :
                k \in {c \in 1..Len(Columns(t)) : borrows[t][c].writers > 0}}
            \cup {"unwrap on None" :
                k \in {c \in 1..Len(Columns(t)) :
                          entities[HandlesOf(scene, t)[i]].row
                              >= Len(archetypes[t].columns[c].data)}} :
            i \in DOMAIN HandlesOf(scene, t)} :
         t \in SceneTables(scene) \cap Registered}

\* the panics Scene::save can end in (none when the set is empty): a table
\* that is gone or was registered unsaved, a row past a column's end, a
\* column with a live RefMut
SavePanics(scene) ==
    {"unwrap on None" : t \in {u \in SceneTables(scene) : u \notin Registered}}
    \cup {"unwrap on None" :
            t \in {u \in SceneTables(scene) \cap Registered : ~archetypes[u].saved}}
    \cup UNION {UNION {
            {"already mutably borrowed" :
                k \in {c \in 1..Len(Columns(t)) : borrows[t][c].writers > 0}}
            \cup {"unwrap on None" :
                k \in {c \in 1..Len(Columns(t)) :
                          entities[HandlesOf(scene, t)[i]].row
                              >= Len(archetypes[t].columns[c].data)}} :
            i \in DOMAIN HandlesOf(scene, t)} :
         t \in {u \in SceneTables(scene) \cap Registered : archetypes[u].saved}}

\* the values Archetype::get reads for the handles of the scene mapped to t
SavedEntities(scene, t) ==
    [i \in DOMAIN HandlesOf(scene, t) |->
        ArchetypeGet(archetypes[t], t, entities[HandlesOf(scene, t)[i]].row)]

\* Scene::save(world, serializer) of the given scene.  origin keeps, for the
\* round trip, the values last given to the entities the scene names (per
\* archetype, in the scene's order) and how many distinct entities it named.
Save(scene) ==
    /\ Running
    /\ origin.phase = "none"
    /\ IF SavePanics(scene) # {}
       THEN /\ panicked' \in SavePanics(scene)
            /\ UNCHANGED sceneVars
       ELSE /\ \E p \in Orders(SceneTables(scene)) :
                 document' = [i \in DOMAIN p |->
                     [key |-> p[i],
                      rows |-> [j \in DOMAIN HandlesOf(scene, p[i]) |->
                                   Serialize(p[i], SavedEntities(scene, p[i])[j])],
                      trunc |-> FALSE]]
            /\ origin' = [phase |-> "saved",
                          rows |-> [t \in Registered |->
                                      [i \in DOMAIN HandlesOf(scene, t) |->
                                          vals[HandlesOf(scene, t)[i]]]],
                          count |-> [t \in Registered |->
                                      Cardinality({id \in Live :
                                          /\ entities[id].table = t
                                          /\ \E i \in DOMAIN scene : scene[i] = id})]]
            /\ UNCHANGED panicked
    /\ UNCHANGED <<worldVars, borrows, resourceVars, vecVars, appVars>>
    /\ UNCHANGED dispatchVars

\* the scenes Scene::from_world builds: every key of the identity map, added
\* in the order the map iterates
ScenesFromWorld == Orders(Live)

\* a fresh World (World::new) with the same archetypes registered the same way
Fresh ==
    /\ Running
    /\ origin.phase = "saved"
    /\ stack = <<>>
    /\ next_id' = 0
    /\ entities' = <<>>
    /\ archetypes' = [t \in Registered |-> TableNew(t, archetypes[t].saved)]
    /\ order' \in Orders(Registered)
    /\ borrows' = [t \in DOMAIN borrows |-> [k \in DOMAIN borrows[t] |-> Unborrowed]]
    /\ minted' = <<>>
    /\ vals' = <<>>
    /\ systems' = <<>>
    /\ resources' = <<>>
    /\ resrefs' = [T \in ResourceTypes |-> Unborrowed]
    /\ origin' = [origin EXCEPT !.phase = "fresh"]
    /\ UNCHANGED <<panicked, stack, log, loaded, document, reslog, vecs, pushes>>
    /\ UNCHANGED appVars

(***************************************************************************)
(* System dispatch.  A system is registered with with_system (both         *)
(* callbacks), with_handler (event only), with_ticker (tick only) or       *)
(* with_system_mut (tick only, behind a RefCell); the callbacks a kind     *)
(* does not define are the trait's empty defaults.  World::tick and        *)
(* World::submit clone the list and call every system in turn; a callback  *)
(* that has a body may itself call tick or submit on the World before it   *)
(* returns.  A frame of the stack is one such call in progress:            *)
(*   [id, kind, list, idx, active]                                         *)
(* with list the cloned system list, idx the system being (or next to be)  *)
(* called and active whether that system's callback is running.            *)
(***************************************************************************)
SystemKinds == {"system", "handler", "ticker", "system_mut"}

\* whether a system of the given kind has a body for the callback
HasBody(kind, cb) ==
    CASE kind = "system" -> TRUE
      [] kind = "handler" -> cb = "event"
      [] kind = "ticker" -> cb = "tick"
      [] kind = "system_mut" -> cb = "tick"

\* number of tick / submit calls begun since the outermost one began
Dispatches == Cardinality({i \in 1..Len(log) : log[i].ev = "begin"})

\* World::with_system / with_handler / with_ticker / with_system_mut
WithSystem(kind) ==
    /\ Running
    /\ stack = <<>>
    /\ log = <<>>
    /\ Len(systems) < MaxSystems
    /\ systems' = Append(systems, kind)
    /\ UNCHANGED <<worldVars, borrows, panicked, stack, log, loaded>>
    /\ UNCHANGED restVars

\* entering World::tick (cb = "tick") or World::submit (cb = "event"):
\* self.systems.clone().into_iter()
Enter(cb, base) ==
    /\ stack' = Append(stack, [id |-> Len(SelectSeq(base, LAMBDA e : e.ev = "begin")) + 1,
                               kind |-> cb, list |-> systems, idx |-> 1,
                               active |-> FALSE])
    /\ log' = Append(base, [ev |-> "begin",
                            id |-> Len(SelectSeq(base, LAMBDA e : e.ev = "begin")) + 1,
                            sys |-> 0, cb |-> cb])

\* the main loop calls world.tick() or world.submit(event)
Dispatch(cb) ==
    /\ Running
    /\ stack = <<>>
    /\ systems # <<>>
    /\ Enter(cb, <<>>)
    /\ UNCHANGED <<worldVars, borrows, panicked, systems, loaded>>
    /\ UNCHANGED restVars

Top == stack[Len(stack)]

\* a RefCell that never reports a borrow
SystemBorrowedNever(i) == FALSE

\* whether system i's RefCell is mutably borrowed: a system_mut whose tick is
\* running in some frame
SystemBorrowed(i) ==
    \E f \in 1..Len(stack) :
        /\ stack[f].active
        /\ stack[f].idx = i
        /\ stack[f].kind = "tick"
        /\ stack[f].list[i] = "system_mut"

\* for_each: the next system of the top frame is called
Invoke ==
    /\ Running
    /\ stack # <<>>
    /\ ~Top.active
    /\ Top.idx <= Len(Top.list)
    /\ log' = Append(log, [ev |-> "call", id |-> Top.id, sys |-> Top.idx, cb |-> Top.kind])
    /\ IF Top.kind = "tick" /\ Top.list[Top.idx] = "system_mut" /\ SystemBorrowed(Top.idx)
       THEN /\ panicked' = "already borrowed"
            /\ UNCHANGED stack
       ELSE /\ stack' = [stack EXCEPT ![Len(stack)].active = TRUE]
            /\ UNCHANGED panicked
    /\ UNCHANGED <<worldVars, borrows, systems, loaded>>
    /\ UNCHANGED restVars

\* the running callback calls world.tick() or world.submit(event)
Nested(cb) ==
    /\ Running
    /\ stack # <<>>
    /\ Top.active
    /\ HasBody(Top.list[Top.idx], Top.kind)
    /\ Dispatches < MaxDispatches
    /\ Enter(cb, log)
    /\ UNCHANGED <<worldVars, borrows, panicked, systems, loaded>>
    /\ UNCHANGED restVars

\* a return after which the iteration stays on the same system
ReturnStaying ==
    /\ Running
    /\ stack # <<>>
    /\ Top.active
    /\ stack' = [stack EXCEPT ![Len(stack)].active = FALSE]
    /\ UNCHANGED <<worldVars, borrows, panicked, systems, log, loaded>>
    /\ UNCHANGED restVars

\* the running callback returns and the iteration moves on
Return ==
    /\ Running
    /\ stack # <<>>
    /\ Top.active
    /\ stack' = [stack EXCEPT ![Len(stack)].active = FALSE, ![Len(stack)].idx = @ + 1]
    /\ UNCHANGED <<worldVars, borrows, panicked, systems, log, loaded>>
    /\ UNCHANGED restVars

\* a nested call that iterates the caller's own list (no clone): when it
\* returns the caller's iteration is exhausted too
LeaveSharedIterator ==
    /\ Running
    /\ stack # <<>>
    /\ ~Top.active
    /\ Top.idx > Len(Top.list)
    /\ stack' = [f \in 1..(Len(stack) - 1) |->
                    [stack[f] EXCEPT !.idx = IF f = Len(stack) - 1
                                             THEN Len(stack[f].list) ELSE @]]
    /\ log' = Append(log, [ev |-> "end", id |-> Top.id, sys |-> 0, cb |-> Top.kind])
    /\ UNCHANGED <<worldVars, borrows, panicked, systems, loaded>>
    /\ UNCHANGED restVars

\* the iteration is exhausted: World::tick / World::submit returns
Leave ==
    /\ Running
    /\ stack # <<>>
    /\ ~Top.active
    /\ Top.idx > Len(Top.list)
    /\ stack' = SubSeq(stack, 1, Len(stack) - 1)
    /\ log' = Append(log, [ev |-> "end", id |-> Top.id, sys |-> 0, cb |-> Top.kind])
    /\ UNCHANGED <<worldVars, borrows, panicked, systems, loaded>>
    /\ UNCHANGED restVars

(***************************************************************************)
(* The game server (src/hypnos): the main loop takes one Serverbound        *)
(* message at a time from the channel and handles it for the client the     *)
(* message came from; a message from an address without a client is         *)
(* skipped, AuthRequest apart.  One client address is modelled.  Items are  *)
(* a kind and a rarity; the inventory maps the items held to their          *)
(* quantities (usize); a negative quantity stands for the result of a usize *)
(* subtraction that underflowed (a panic in a debug build, a wrapped value  *)
(* in a release build).                                                     *)
(***************************************************************************)
\* item::RARITIES
RARITIES == <<"Common", "Uncommon", "Rare", "Epic", "Legendary">>

Rarities == {RARITIES[i] : i \in DOMAIN RARITIES}

\* Rarity::index
RarityIndex(r) == (CHOOSE i \in DOMAIN RARITIES : RARITIES[i] = r) - 1

\* Rarity::next
RarityNext(r) == IF r = "Legendary" THEN "Legendary" ELSE RARITIES[RarityIndex(r) + 2]

ItemKinds == {"CopperOre", "CopperIngot", "FireDamageReagent"}

Items == [kind : ItemKinds, rarity : Rarities]

\* data::recipes()
Recipes ==
    << [inputs |-> << [kind |-> "CopperOre", quantity |-> 2] >>,
        output |-> [type |-> "Item", kind |-> "CopperIngot"]],
       [inputs |-> << [kind |-> "CopperIngot", quantity |-> 3] >>,
        output |-> [type |-> "Equipment", kind |-> "CopperSword"]],
       [inputs |-> << [kind |-> "CopperIngot", quantity |-> 2] >>,
        output |-> [type |-> "Item", kind |-> "FireDamageReagent"]] >>

\* data::nodes::get(): one node, whose loot table has the one entry of
\* probability 1.0 (LootTable::pick always finds it)
Nodes ==
    << << [item |-> [kind |-> "CopperOre", rarity |-> "Common"], quantity |-> 2] >> >>

\* Option::unwrap_or_default on a quantity
UnwrapOrDefault(opt) == IF opt = None THEN 0 ELSE opt[1]

\* Inventory::get
InventoryGet(inv, item) == IF item \in DOMAIN inv THEN Some(inv[item]) ELSE None

\* Inventory::add
InventoryAdd(inv, item_stack) ==
    IF item_stack.item \in DOMAIN inv
    THEN [inv EXCEPT ![item_stack.item] = @ + item_stack.quantity]
    ELSE Extend(inv, item_stack.item, item_stack.quantity)

\* Inventory::remove (the map after the call)
InventoryRemove(inv, item_stack) ==
    IF item_stack.item \notin DOMAIN inv THEN inv
    ELSE IF inv[item_stack.item] = item_stack.quantity
    THEN Restrict(inv, DOMAIN inv \ {item_stack.item})
    ELSE [inv EXCEPT ![item_stack.item] = @ - item_stack.quantity]

\* Inventory::set
InventorySet(inv, item_stack) ==
    IF item_stack.quantity = 0
    THEN Restrict(inv, DOMAIN inv \ {item_stack.item})
    ELSE Extend(inv, item_stack.item, item_stack.quantity)

\* the length of a.zip(b)
ZipLen(a, b) == Min(Len(a), Len(b))

\* the item the i-th input of a recipe asks for at the i-th rarity given
InputItem(recipe, rarities, i) ==
    [kind |-> recipe.inputs[i].kind, rarity |-> rarities[i]]

\* a craftable that takes the request's word for it
RecipeCraftableAlways(recipe, inv, rarities) == TRUE

\* Recipe::craftable(inventory.items(), rarities): every input that has a
\* rarity zipped to it is held in at least the quantity asked
RecipeCraftable(recipe, inv, rarities) ==
    \A i \in 1..ZipLen(recipe.inputs, rarities) :
        recipe.inputs[i].quantity
            <= UnwrapOrDefault(InventoryGet(inv, InputItem(recipe, rarities, i)))

\* Clientbound::SetStack
SetStack(item, quantity) == [msg |-> "SetStack", item |-> item, quantity |-> quantity]

RECURSIVE RemoveInputs(_, _, _, _)
\* the for_each of the Craft handler over inputs.zip(rarities), up to the
\* n-th pair: the inventory after the removals and the SetStack messages sent
RemoveInputs(inv, recipe, rarities, n) ==
    IF n = 0 THEN [inv |-> inv, sent |-> <<>>]
    ELSE LET prev == RemoveInputs(inv, recipe, rarities, n - 1)
             item == InputItem(recipe, rarities, n)
             after == InventoryRemove(prev.inv,
                          [item |-> item, quantity |-> recipe.inputs[n].quantity])
         IN [inv |-> after,
             sent |-> Append(prev.sent,
                             SetStack(item, UnwrapOrDefault(InventoryGet(after, item))))]

RECURSIVE SumOver(_, _)
SumOver(f, n) == IF n = 0 THEN 0 ELSE f[n] + SumOver(f, n - 1)

\* the sum of the quantities of all inputs of a recipe (total)
RecipeTotal(recipe) ==
    SumOver([i \in DOMAIN recipe.inputs |-> recipe.inputs[i].quantity],
            Len(recipe.inputs))

\* Recipe::rarity_chances(rarities, rank_up) for the rank_up of 0.0 every
\* client has (Proficiencies::default() is never written): the chance of the
\* rarity query, in tenths and times the recipe's total (0.8 for an input's
\* own rarity, 0.2 for the next, weighted by the input's quantity)
RarityChance(recipe, rarities, query) ==
    SumOver([i \in 1..ZipLen(recipe.inputs, rarities) |->
                ((IF query = rarities[i] THEN 8 ELSE 0)
                 + (IF query = RarityNext(rarities[i]) THEN 2 ELSE 0))
                * recipe.inputs[i].quantity],
            ZipLen(recipe.inputs, rarities))

\* LootTable::pick over the five rarities with those chances: p is drawn
\* from [0, 1) and the first entry at which the running difference falls
\* below zero is returned; find_map(..).unwrap() panics when none does
LootTablePick(recipe, rarities) ==
    {r \in Rarities : RarityChance(recipe, rarities, r) > 0}
    \cup (IF SumOver([i \in DOMAIN RARITIES |->
                         RarityChance(recipe, rarities, RARITIES[i])], Len(RARITIES))
               < 10 * RecipeTotal(recipe)
          THEN {"unwrap on None"} ELSE {})

\* the piece of equipment the Craft handler makes
NewEquipment(kind, rarity) ==
    [id |-> next_equipment, kind |-> kind, rarity |-> rarity, durability |-> 10,
     passives |-> [i \in 1..(RarityIndex(rarity) + 1) |-> "Empty"]]

\* Serverbound::AuthRequest: add_client gives the address a new Client with
\* the next id; a Client the address already has is told of the new one, the
\* new one of it, and is then replaced
AuthRequest ==
    /\ Running
    /\ next_client < MaxClients
    /\ connected' = TRUE
    /\ position' = 0
    /\ inventory' = <<>>
    /\ equipment' = <<>>
    /\ next_client' = next_client + 1
    /\ sent' = << [msg |-> "AuthSuccess", id |-> next_client] >>
                \o (IF connected
                    THEN << [msg |-> "Spawn", id |-> next_client],
                            [msg |-> "Spawn", id |-> next_client - 1] >>
                    ELSE <<>>)
    /\ UNCHANGED <<next_equipment, gathers, panicked>>
    /\ UNCHANGED <<worldVars, borrows, dispatchVars, sceneVars, resourceVars, vecVars, netVars>>

\* Serverbound::Disconnect
Disconnect ==
    /\ Running
    /\ connected
    /\ connected' = FALSE
    /\ position' = 0
    /\ inventory' = <<>>
    /\ equipment' = <<>>
    /\ sent' = <<>>
    /\ UNCHANGED <<next_client, next_equipment, gathers, panicked>>
    /\ UNCHANGED <<worldVars, borrows, dispatchVars, sceneVars, resourceVars, vecVars, netVars>>

\* the positions and ticks of the Move messages handled
Positions == 0..1
Ticks == 1..1

\* Serverbound::Move(position, tick): the position is stored and the move is
\* sent to every client; for addresses other than the sender's only when the
\* position has changed, for the sender's own always
Move(pos, tick) ==
    /\ Running
    /\ IF ~connected
       THEN /\ sent' = <<>>
            /\ UNCHANGED position
       ELSE /\ position' = pos
            /\ sent' = << [msg |-> "Move", id |-> next_client - 1,
                           position |-> pos, tick |-> tick] >>
    /\ UNCHANGED <<connected, next_client, inventory, equipment, next_equipment,
                   gathers, panicked>>
    /\ UNCHANGED <<worldVars, borrows, dispatchVars, sceneVars, resourceVars, vecVars, netVars>>

\* Serverbound::Gather(index)
Gather(index) ==
    /\ Running
    /\ gathers < MaxGathers
    /\ gathers' = gathers + 1
    /\ IF ~connected \/ index \notin 0..(Len(Nodes) - 1)
       THEN /\ sent' = <<>>
            /\ UNCHANGED inventory
       ELSE LET item_stack == Nodes[index + 1][1]
                after == InventoryAdd(inventory, item_stack)
            IN /\ inventory' = after
               /\ sent' = << SetStack(item_stack.item,
                                      UnwrapOrDefault(InventoryGet(after, item_stack.item))) >>
    /\ UNCHANGED <<connected, next_client, position, equipment, next_equipment, panicked>>
    /\ UNCHANGED <<worldVars, borrows, dispatchVars, sceneVars, resourceVars, vecVars, netVars>>

\* Serverbound::Craft(index, rarities)
Craft(index, rarities) ==
    /\ Running
    /\ IF \/ ~connected
          \/ index \notin 0..(Len(Recipes) - 1)
          \/ ~RecipeCraftable(Recipes[index + 1], inventory, rarities)
       THEN /\ sent' = <<>>
            /\ UNCHANGED <<inventory, equipment, next_equipment, panicked>>
       ELSE LET recipe == Recipes[index + 1]
                removed == RemoveInputs(inventory, recipe, rarities,
                                        ZipLen(recipe.inputs, rarities))
            IN \E rarity \in LootTablePick(recipe, rarities) :
                 IF rarity = "unwrap on None"
                 THEN /\ panicked' = rarity
                      /\ inventory' = removed.inv
                      /\ sent' = removed.sent
                      /\ UNCHANGED <<equipment, next_equipment>>
                 ELSE IF recipe.output.type = "Item"
                 THEN LET item == [kind |-> recipe.output.kind, rarity |-> rarity]
                          after == InventoryAdd(removed.inv,
                                                [item |-> item, quantity |-> 1])
                      IN /\ inventory' = after
                         /\ sent' = Append(removed.sent,
                                SetStack(item, UnwrapOrDefault(InventoryGet(after, item))))
                         /\ UNCHANGED <<equipment, next_equipment, panicked>>
                 ELSE LET piece == NewEquipment(recipe.output.kind, rarity)
                      IN /\ equipment' = Append(equipment, piece)
                         /\ next_equipment' = next_equipment + 1
                         /\ inventory' = removed.inv
                         /\ sent' = Append(removed.sent,
                                           [msg |-> "AddEquipment", piece |-> piece])
                         /\ UNCHANGED panicked
    /\ UNCHANGED <<connected, next_client, position, gathers>>
    /\ UNCHANGED <<worldVars, borrows, dispatchVars, sceneVars, resourceVars, vecVars, netVars>>

\* Item::passive
ItemPassive(item) ==
    IF item.kind = "FireDamageReagent"
    THEN Some(<<"FireDamage", RarityIndex(item.rarity)>>)
    ELSE None

\* Serverbound::Refine(id, reagent)
Refine(id, reagent) ==
    /\ Running
    /\ LET pieces == {i \in DOMAIN equipment : equipment[i].id = id}
           piece == CHOOSE i \in pieces : \A j \in pieces : i <= j
           slots == IF pieces = {} THEN {}
                    ELSE {k \in DOMAIN equipment[piece].passives :
                             equipment[piece].passives[k] = "Empty"}
           slot == CHOOSE k \in slots : \A j \in slots : k <= j
       IN IF \/ ~connected
             \/ InventoryGet(inventory, reagent) = None
             \/ ItemPassive(reagent) = None
             \/ pieces = {}
             \/ slots = {}
          THEN /\ sent' = <<>>
               /\ UNCHANGED <<inventory, equipment>>
          ELSE LET item_stack == [item |-> reagent, quantity |-> inventory[reagent] - 1]
               IN /\ equipment' = [equipment EXCEPT
                                      ![piece].passives[slot] = ItemPassive(reagent)[1]]
                  /\ inventory' = InventorySet(inventory, item_stack)
                  /\ sent' = << SetStack(item_stack.item, item_stack.quantity),
                                [msg |-> "SetPassives", id |-> id,
                                 passives |-> equipment'[piece].passives] >>
    /\ UNCHANGED <<connected, next_client, position, next_equipment, gathers, panicked>>
    /\ UNCHANGED <<worldVars, borrows, dispatchVars, sceneVars, resourceVars, vecVars, netVars>>

\* the rarities lists of the Craft messages handled
CraftRarities == UNION {[1..n -> Rarities] : n \in 0..MaxRarities}

(***************************************************************************)
(* The client's Connection (src/thanatos/src/net.rs).  wire holds the bytes *)
(* the server has written to the stream and the client has not read yet, in *)
(* order, followed by EndOfStream once the server has closed the stream or  *)
(* by ConnectionReset once the connection has been reset; buffer is         *)
(* Connection::buffer.  bundles is the list of the bundles get has returned *)
(* and frames the number of frames written.  Bytes are numbers from 0 to    *)
(* 255.  Connection::add registers Connection::tick with with_ticker, so it *)
(* runs as the tick callback of the first ticker of the list whenever the   *)
(* client's loop calls World::tick.  It is a call in two parts: read and    *)
(* get run with the Connection resource mutably borrowed (net.rs:76-93);    *)
(* the guard is then dropped and a bundle that get returned is handed to    *)
(* the systems through World::submit (net.rs:94-97), a dispatch nested in   *)
(* the tick, whose callbacks run one after another as in any other          *)
(* dispatch.  The Connection is a stored resource and no guard of it is     *)
(* alive when tick is called.  The loop of the client ends when the State   *)
(* resource is State::Stopped, which the handler of Event::Stop sets.       *)
(***************************************************************************)
\* the mark of the end of the stream on the wire: every read at it gives Ok(0)
EndOfStream == 0 - 1

\* the mark of a reset connection on the wire: the read at it gives an Err
\* that is not WouldBlock
ConnectionReset == 0 - 2

\* the stream w has ended, closed or reset
Closed(w) == \E i \in DOMAIN w : w[i] \in {EndOfStream, ConnectionReset}

\* u32::from_be_bytes
U32FromBeBytes(b) == ((b[1] * 256 + b[2]) * 256 + b[3]) * 256 + b[4]

\* u32::to_be_bytes
U32ToBeBytes(n) ==
    << (n \div 16777216) % 256, (n \div 65536) % 256, (n \div 256) % 256, n % 256 >>

\* a u64 read by bincode: eight bytes, least significant first
U64FromLeBytes(b) ==
    LET RECURSIVE Value(_)
        Value(i) == IF i > 8 THEN 0 ELSE b[i] + 256 * Value(i + 1)
    IN Value(1)

\* a u64 written by bincode (for numbers below 256)
U64ToLeBytes(n) == <<n % 256, 0, 0, 0, 0, 0, 0, 0>>

\* bincode::serialize of a ClientboundBundle without messages: the tick and
\* the length of the empty list of messages
BundleEmpty(tick) == U64ToLeBytes(tick) \o U64ToLeBytes(0)

\* bincode::deserialize::<ClientboundBundle>(payload).ok(), for payloads of
\* fewer than 20 bytes: the tick and the number of messages take sixteen
\* bytes, a first message at least four more; bytes after the value are
\* left unread
BincodeDeserialize(payload) ==
    IF Len(payload) < 16 THEN None
    ELSE IF U64FromLeBytes(SubSeq(payload, 9, 16)) # 0 THEN None
    ELSE Some([tick |-> U64FromLeBytes(SubSeq(payload, 1, 8)), messages |-> <<>>])

\* the framing of Connection::write and of the server's writer: the length
\* of the payload as four bytes, most significant first, then the payload
Frame(payload) == U32ToBeBytes(Len(payload)) \o payload

\* the payloads of the frames the server side of the stream writes: bundles
\* of ticks 1 and 2, a bundle cut short, no payload at all, and a bundle
\* that announces a message it does not hold
Payloads ==
    { BundleEmpty(1), BundleEmpty(2), <<7>>, <<>>,
      U64ToLeBytes(1) \o U64ToLeBytes(1) }

\* Connection::get: the bundle returned and the buffer afterwards
ConnectionGet(buf) ==
    IF Len(buf) < 4 THEN [ret |-> None, buffer |-> buf]
    ELSE LET length == U32FromBeBytes(SubSeq(buf, 1, 4))
         IN IF Len(buf) < length + 4 THEN [ret |-> None, buffer |-> buf]
            ELSE LET message == BincodeDeserialize(SubSeq(buf, 5, length + 4))
                 IN IF message = None THEN [ret |-> None, buffer |-> buf]
                    ELSE [ret |-> message,
                          buffer |-> SubSeq(buf, length + 5, Len(buf))]

\* the peer writes one frame to the stream
ServerWrite(payload) ==
    /\ Running
    /\ frames < MaxFrames
    /\ ~Closed(wire)
    /\ wire' = wire \o Frame(payload)
    /\ frames' = frames + 1
    /\ UNCHANGED <<buffer, bundles, stopped, panicked>>
    /\ UNCHANGED <<worldVars, borrows, dispatchVars, sceneVars, resourceVars, vecVars, serverVars>>

\* the peer closes the stream
ServerClose ==
    /\ Running
    /\ ~Closed(wire)
    /\ wire' = Append(wire, EndOfStream)
    /\ UNCHANGED <<buffer, bundles, stopped, frames, panicked>>
    /\ UNCHANGED <<worldVars, borrows, dispatchVars, sceneVars, resourceVars, vecVars, serverVars>>

\* the connection is reset (the peer is gone without closing the stream)
ServerReset ==
    /\ Running
    /\ ~Closed(wire)
    /\ wire' = Append(wire, ConnectionReset)
    /\ UNCHANGED <<buffer, bundles, stopped, frames, panicked>>
    /\ UNCHANGED <<worldVars, borrows, dispatchVars, sceneVars, resourceVars, vecVars, serverVars>>

\* Connection::add(world) is with_resource(Connection) and
\* with_ticker(Connection::tick), and the client adds it before any other
\* ticker (main.rs:142): the index of the first ticker, 0 before it is added
ConnectionSystem ==
    IF \E i \in DOMAIN systems : systems[i] = "ticker"
    THEN MinOf({i \in DOMAIN systems : systems[i] = "ticker"})
    ELSE 0

\* World::tick has called Connection::tick and the callback is at its first
\* statement: the call is the last entry of the log
ConnectionPending ==
    /\ stack # <<>>
    /\ Top.active
    /\ Top.kind = "tick"
    /\ Top.idx = ConnectionSystem
    /\ log[Len(log)].ev = "call"

\* Connection::tick up to the end of its first block (net.rs:76-93), when the
\* first k bytes of the wire have arrived.  read appends what every
\* TcpStream::read returns to the buffer and returns Ok at WouldBlock; an
\* Err of any other kind is returned and conn.read().unwrap() panics; at the
\* end of the stream every call returns Ok(0) and the loop never ends.  After
\* read, get is called once: without a bundle tick returns and World::tick
\* moves on to the next system; with one the guard is dropped and tick goes
\* on to its submits.  The bundles the payloads of the model deserialize to
\* carry no messages, so the for_each of net.rs:94-96 submits nothing and
\* tick enters world.submit(Event::ServerTick) (net.rs:97), a dispatch nested
\* in the tick, which Invoke, Return and Leave carry on; Connection::tick
\* returns after it.
ConnectionTick(k) ==
    /\ Running
    /\ ConnectionPending
    /\ k \in 0..Len(wire)
    /\ LET arrived == SubSeq(wire, 1, k)
       IN IF Closed(arrived)
          THEN /\ buffer' = buffer \o SubSeq(wire, 1, k - 1)
               /\ wire' = SubSeq(wire, k, Len(wire))
               /\ panicked' = IF wire[k] = ConnectionReset
                              THEN "unwrap on Err"
                              ELSE "read never returns"
               /\ UNCHANGED <<bundles, stack, log>>
          ELSE LET got == ConnectionGet(buffer \o arrived)
               IN /\ wire' = SubSeq(wire, k + 1, Len(wire))
                  /\ buffer' = got.buffer
                  /\ UNCHANGED panicked
                  /\ IF got.ret = None
                     THEN /\ stack' = [stack EXCEPT ![Len(stack)].active = FALSE,
                                                    ![Len(stack)].idx = @ + 1]
                          /\ UNCHANGED <<bundles, log>>
                     ELSE /\ bundles' = Append(bundles, got.ret[1])
                          /\ Enter("event", log)
    /\ UNCHANGED <<frames, stopped, systems, loaded>>
    /\ UNCHANGED <<worldVars, borrows, sceneVars, resourceVars, vecVars, serverVars>>

\* the loop of the client: unless the State is State::Stopped, world.tick()
MainLoop ==
    /\ ~stopped
    /\ Dispatch("tick")

\* the callback called last returns; Connection::tick not before its body
\* has run
CallbackReturn ==
    /\ ~ConnectionPending
    /\ Return

\* the tick callback of a system other than the Connection, such as the
\* window's, submits an event (window.rs:179)
WindowSubmit ==
    /\ stack # <<>>
    /\ Top.active
    /\ Top.kind = "tick"
    /\ Top.idx # ConnectionSystem
    /\ Nested("event")

\* the handler of Event::Stop, called for an event the window submitted,
\* sets the State to State::Stopped
StopHandler ==
    /\ Running
    /\ Len(stack) >= 2
    /\ Top.active
    /\ Top.kind = "event"
    /\ HasBody(Top.list[Top.idx], "event")
    /\ stack[Len(stack) - 1].idx # ConnectionSystem
    /\ ~stopped
    /\ stopped' = TRUE
    /\ UNCHANGED <<wire, buffer, bundles, frames, panicked>>
    /\ UNCHANGED <<worldVars, borrows, dispatchVars, sceneVars, resourceVars, vecVars, serverVars>>

(***************************************************************************)
(* Specifications                                                          *)
(***************************************************************************)
\* T1 and T2 also derive Serialize, Deserialize and Clone and are registered
\* with register
Saved(t) == t \in {"T1", "T2"}

\* a World whose archetypes are each registered once, then used through
\* spawn, despawn and get_component_mut
Next ==
    \/ \E t \in ArchetypeIds \ Registered : Register(t, Saved(t))
    \/ \E t \in ArchetypeIds : \E entity \in EntityValues(t) : Spawn(t, entity)
    \/ \E T \in ArchetypeIds, id \in 0..(MaxIds - 1) : Despawn(T, id)
    \/ \E id \in 0..(MaxIds - 1), T \in Types, v \in Values : SetComponent(id, T, v)

Spec == Init /\ [][Next]_vars

\* the same World, also filled from scenes
NextScene ==
    \/ \E t \in ArchetypeIds \ Registered : Register(t, Saved(t))
    \/ \E t \in ArchetypeIds : \E entity \in EntityValues(t) : Spawn(t, entity)
    \/ \E T \in ArchetypeIds, id \in 0..(MaxIds - 1) : Despawn(T, id)
    \/ \E input \in LoadInputs(Room, Values) : Load(input)

SpecScene == Init /\ [][NextScene]_vars

\* the same World where every field of every entity holds the same value (the
\* minting of ids does not look at the values)
NextIds ==
    \/ \E t \in ArchetypeIds \ Registered : Register(t, Saved(t))
    \/ \E t \in ArchetypeIds : Spawn(t, [k \in 1..Len(Columns(t)) |-> 1])
    \/ \E T \in ArchetypeIds, id \in 0..(MaxIds - 1) : Despawn(T, id)
    \/ \E input \in LoadInputs(Room, {1}) : Load(input)

SpecIds == Init /\ [][NextIds]_vars

\* a World of such entities that is not loaded into (the selection of tables
\* by a query does not look at the values)
NextTables ==
    \/ \E t \in ArchetypeIds \ Registered : Register(t, Saved(t))
    \/ \E t \in ArchetypeIds : Spawn(t, [k \in 1..Len(Columns(t)) |-> 1])
    \/ \E T \in ArchetypeIds, id \in 0..(MaxIds - 1) : Despawn(T, id)

SpecTables == Init /\ [][NextTables]_vars

\* a World whose columns are borrowed through Table::column and
\* Table::column_mut while entities come and go (the component values play no
\* part in borrowing: every field is spawned with the same value)
NextBorrow ==
    \/ \E t \in ArchetypeIds \ Registered : Register(t, Saved(t))
    \/ \E t \in ArchetypeIds : Spawn(t, [k \in 1..Len(Columns(t)) |-> 1])
    \/ \E T \in ArchetypeIds, id \in 0..(MaxIds - 1) : Despawn(T, id)
    \/ \E t \in ArchetypeIds, T \in Types : TableColumn(t, T)
    \/ \E t \in ArchetypeIds, T \in Types : TableColumnMut(t, T)
    \/ \E t \in ArchetypeIds, k \in 1..Cardinality(Types), mut \in BOOLEAN : DropRef(t, k, mut)

SpecBorrow == Init /\ [][NextBorrow]_vars

\* a World whose entities have values, with guards of its columns taken and
\* dropped
NextComponents ==
    \/ \E t \in ArchetypeIds \ Registered : Register(t, Saved(t))
    \/ \E t \in ArchetypeIds : \E entity \in EntityValues(t) : Spawn(t, entity)
    \/ \E T \in ArchetypeIds, id \in 0..(MaxIds - 1) : Despawn(T, id)
    \/ \E id \in 0..(MaxIds - 1), T \in Types, v \in Values : SetComponent(id, T, v)
    \/ \E t \in ArchetypeIds, T \in Types : TableColumn(t, T)
    \/ \E t \in ArchetypeIds, T \in Types : TableColumnMut(t, T)
    \/ \E t \in ArchetypeIds, k \in 1..Cardinality(Types), mut \in BOOLEAN : DropRef(t, k, mut)

SpecComponents == Init /\ [][NextComponents]_vars

\* a World given its systems at start-up and then ticked and sent events
NextDispatch ==
    \/ \E kind \in SystemKinds : WithSystem(kind)
    \/ \E cb \in {"tick", "event"} : Dispatch(cb)
    \/ Invoke
    \/ \E cb \in {"tick", "event"} : Nested(cb)
    \/ Return
    \/ Leave

SpecDispatch == Init /\ [][NextDispatch]_vars

\* the archetypes of the Worlds whose scenes are saved and loaded again
RoundTripIds == {"T2", "T3"}

\* a World that is populated, saved as a scene, and whose scene is then loaded
\* into a fresh World with the same archetypes
NextRoundTrip ==
    \/ \E t \in RoundTripIds \ Registered, saved \in BOOLEAN :
          origin.phase = "none" /\ Register(t, saved)
    \/ \E t \in RoundTripIds : \E entity \in EntityValues(t) :
          origin.phase = "none" /\ t \in Registered /\ Spawn(t, entity)
    \/ \E T \in RoundTripIds, id \in 0..(MaxIds - 1) :
          origin.phase = "none" /\ id \in Live /\ entities[id].table = T
              /\ Despawn(T, id)
    \/ \E scene \in Scenes : Save(scene)
    \/ Fresh
    \/ origin.phase = "fresh" /\ loaded = <<>> /\ Load(document)

SpecRoundTrip == Init /\ [][NextRoundTrip]_vars

\* a World whose archetypes are registered once, with register or with
\* register_unsaved, whose scenes are saved and into which scenes are loaded
NextUnsaved ==
    \/ \E t \in ArchetypeIds \ Registered, saved \in BOOLEAN : Register(t, saved)
    \/ \E t \in ArchetypeIds : Spawn(t, [k \in 1..Len(Columns(t)) |-> 1])
    \/ \E scene \in Scenes \cup ScenesFromWorld : Save(scene)
    \/ \E input \in LoadInputs(Room, {1}) : Load(input)

SpecUnsaved == Init /\ [][NextUnsaved]_vars

\* a World in which archetypes may be registered again, in either way
NextRegister ==
    \/ \E t \in ArchetypeIds, saved \in BOOLEAN : Register(t, saved)
    \/ \E t \in ArchetypeIds : \E entity \in EntityValues(t) : Spawn(t, entity)
    \/ \E T \in ArchetypeIds, id \in 0..(MaxIds - 1) : Despawn(T, id)

SpecRegister == Init /\ [][NextRegister]_vars

\* columns on their own, pushed to with values of either type
NextVecAny ==
    \/ \E T \in Types : VecNew(T)
    \/ \E T \in Types, item \in Values : VecPush(T, item)

SpecVecAny == Init /\ [][NextVecAny]_vars

\* a World of three archetypes, two of which have the same fields
NextQueryOne ==
    \/ \E t \in (ArchetypeIds \cup SkippingIds) \ Registered : Register(t, TRUE)
    \/ \E t \in ArchetypeIds \cup SkippingIds :
          t \in Registered /\ Spawn(t, [k \in 1..Len(Columns(t)) |-> 1])
    \/ \E T \in ArchetypeIds \cup SkippingIds, id \in 0..(MaxIds - 1) :
          id \in Live /\ entities[id].table = T /\ Despawn(T, id)

SpecQueryOne == Init /\ [][NextQueryOne]_vars

\* the same World without despawns, with query_one outputs taken and dropped
NextQueryOneGuards ==
    \/ \E t \in (ArchetypeIds \cup SkippingIds) \ Registered : Register(t, TRUE)
    \/ \E t \in ArchetypeIds \cup SkippingIds :
          t \in Registered /\ Spawn(t, [k \in 1..Len(Columns(t)) |-> 1])
    \/ \E q \in OneQueries : QueryOne(q)
    \/ \E t \in ArchetypeIds \cup SkippingIds, k \in 1..Cardinality(Types),
          mut \in BOOLEAN : DropRef(t, k, mut)

SpecQueryOneGuards == Init /\ [][NextQueryOneGuards]_vars

\* the game server handling the messages of one client
NextServer ==
    \/ AuthRequest
    \/ Disconnect
    \/ \E pos \in Positions, tick \in Ticks : Move(pos, tick)
    \/ \E index \in 0..Len(Nodes) : Gather(index)
    \/ \E index \in 0..Len(Recipes), rarities \in CraftRarities : Craft(index, rarities)
    \/ \E id \in 0..1, reagent \in Items : Refine(id, reagent)

SpecServer == Init /\ [][NextServer]_vars

\* the game client: the Connection and other systems are added, then the
\* loop ticks the World while the peer writes frames.  The event callbacks
\* return without dispatching again (the program's only submit calls are
\* those of window.rs:179 and net.rs:96-97, both in tick callbacks).
NextConnection ==
    \/ \E kind \in SystemKinds : WithSystem(kind)
    \/ \E payload \in Payloads : ServerWrite(payload)
    \/ ServerClose
    \/ ServerReset
    \/ MainLoop
    \/ Invoke
    \/ \E k \in 0..(MaxFrames * 20 + 1) : ConnectionTick(k)
    \/ WindowSubmit
    \/ StopHandler
    \/ CallbackReturn
    \/ Leave

SpecConnection == Init /\ [][NextConnection]_vars

\* the one thread of the client goes on: the loop calls world.tick() again
\* for as long as the State is not State::Stopped, and within a tick every
\* call and every return of a callback is followed by the next
SpecConnectionFair ==
    /\ SpecConnection
    /\ WF_vars(MainLoop)
    /\ WF_vars(Invoke)
    /\ WF_vars(\E k \in 0..(MaxFrames * 20 + 1) : ConnectionTick(k))
    /\ WF_vars(CallbackReturn)
    /\ WF_vars(Leave)

\* a World whose resources are inserted, read, written and removed
NextResources ==
    \/ \E T \in ResourceTypes, v \in Values : WithResource(T, v)
    \/ \E T \in ResourceTypes : Get(T)
    \/ \E T \in ResourceTypes : GetMut(T)
    \/ \E T \in ResourceTypes, v \in Values : WriteResource(T, v)
    \/ \E T \in ResourceTypes, mut \in BOOLEAN : DropResRef(T, mut)
    \/ \E T \in ResourceTypes : Remove(T)

SpecResources == Init /\ [][NextResources]_vars

(***************************************************************************)
(* Properties                                                              *)
(***************************************************************************)
\* the position of component T among the declared fields of archetype t,
\* 0 when t declares no field of that type
FieldIndex(t, T) ==
    LET S == {k \in 1..Len(Columns(t)) : Columns(t)[k] = T}
    IN IF S = {} THEN 0 ELSE CHOOSE k \in S : TRUE

\* the elements of a sequence
Range(s) == {s[i] : i \in DOMAIN s}

\* the live id mapped to the position a view item points at
OwnersOf(item) ==
    {id \in Live : entities[id].table = item.table /\ entities[id].row = item.row}

\* C1: after any spawns, writes and despawns, every EntityId that is still live
\* resolves through get_component to exactly the values it was spawned with or
\* last written to (and to None for a component its archetype lacks): the
\* swap-remove compaction never makes a live id point at another entity's row.
C1_LiveIdsResolveToOwnValues ==
    \A id \in Live : \A T \in Types :
        GetComponent(id, T) =
            (LET k == FieldIndex(entities[id].table, T)
             IN IF k = 0 THEN None ELSE Some(vals[id][k]))

\* C1 witness: entity 0 of T1 was despawned from row 0 while entities 1 and 2
\* of T1 live on, entity 2 moved into the vacated row, with values that differ
C1_Witness ==
    /\ Running
    /\ next_id = 3
    /\ Live = {1, 2}
    /\ entities[1] = [table |-> "T1", row |-> 1]
    /\ entities[2] = [table |-> "T1", row |-> 0]
    /\ vals[1] # vals[2]

\* C2: ids are minted in strictly increasing order, by spawn and by Scene::load
\* alike: every minted id is greater than all minted before it, the counter is
\* above all of them, and every live id is a minted one, so that the id of a
\* despawned entity is never handed out again.
C2_IdsStrictlyIncreasing ==
    /\ \A i, j \in DOMAIN minted : i < j => minted[i] < minted[j]
    /\ \A i \in DOMAIN minted : minted[i] < next_id
    /\ Live \subseteq Range(minted)

\* C2 witness: a Scene::load minted an id after two spawns, one of whose
\* entities has since been despawned
C2_Witness ==
    /\ Running
    /\ \E l \in DOMAIN loaded :
          /\ loaded[l].ids # <<>>
          /\ loaded[l].ids[1] >= 2
          /\ loaded[l].ids[1] \in Live
          /\ \E id \in 0..(loaded[l].ids[1] - 1) : id \in Range(minted) \ Live

\* C3: query::<(&A, &B)>() yields exactly the rows of T1, in row order and none
\* of T2's, in both of its views, while the &A view of a query filtered by
\* With<A> holds every row of every registered table (T1 and T2 both have A).
C3_QueryRefARefB ==
    /\ LET tables == QueryTables(<<QRef("A"), QRef("B")>>)
           a == ColumnsIter(tables, "A")
           b == ColumnsIter(tables, "B")
           n == IF "T1" \in Registered THEN TableLen(archetypes["T1"]) ELSE 0
       IN /\ Len(a) = n
          /\ Len(b) = n
          /\ \A i \in 1..n :
                /\ a[i] = [table |-> "T1", col |-> FieldIndex("T1", "A"), row |-> i - 1]
                /\ b[i] = [table |-> "T1", col |-> FieldIndex("T1", "B"), row |-> i - 1]
    /\ LET tables == QueryTables(<<QRef("A"), QWith("A")>>)
           a == ColumnsIter(tables, "A")
       IN /\ Range(tables) = Registered
          /\ Len(a) = TotalRows
          /\ \A t \in Registered : \A r \in 0..(TableLen(archetypes[t]) - 1) :
                \E i \in DOMAIN a : a[i].table = t /\ a[i].row = r

\* C3 witness: T1 and T2 both hold rows, T2 comes first in the iteration order
\* and an entity has been despawned
C3_Witness ==
    /\ Running
    /\ order = <<"T2", "T1">>
    /\ TableLen(archetypes["T1"]) >= 1
    /\ TableLen(archetypes["T2"]) >= 1
    /\ Cardinality(Live) < next_id

\* the slots a tuple query is made of
Slots ==
    {QRef(T) : T \in Types} \cup {QMut(T) : T \in Types}
    \cup {QWith(T) : T \in Types} \cup {QWithout(T) : T \in Types}
    \cup {QOpt(T) : T \in Types} \cup {QIs(a) : a \in ArchetypeIds} \cup {QEntity}

\* the registered tables a slot's predicate selects, by the archetypes'
\* declarations
Selected(slot) ==
    {t \in Registered :
        CASE slot.kind \in {"ref", "mut", "with"} -> FieldIndex(t, slot.arg) # 0
          [] slot.kind = "without" -> FieldIndex(t, slot.arg) = 0
          [] slot.kind = "is" -> t = slot.arg
          [] slot.kind \in {"opt", "entity"} -> TRUE}

\* C4: the tables a tuple query selects are exactly those every slot's
\* predicate selects, each once: &T, &mut T and With<T> select the tables with
\* a T column, Without<T> those without, Is<A> the table registered for A,
\* Option<&T> and EntityId every table.
C4_TupleSelectsIntersection ==
    /\ \A s \in Slots :
          LET tables == QueryTables(<<s>>)
          IN Range(tables) = Selected(s) /\ Len(tables) = Cardinality(Selected(s))
    /\ \A s1, s2 \in Slots :
          LET tables == QueryTables(<<s1, s2>>)
          IN /\ Range(tables) = Selected(s1) \cap Selected(s2)
             /\ Len(tables) = Cardinality(Selected(s1) \cap Selected(s2))

\* C4 witness: both archetypes are registered and hold rows, and a tuple of two
\* slots selects the one table both of its slots select
C4_Witness ==
    /\ Running
    /\ Registered = ArchetypeIds
    /\ \A t \in Registered : TableLen(archetypes[t]) >= 1
    /\ QueryTables(<<QWithout("B"), QRef("A")>>) = <<"T2">>
    /\ QueryTables(<<QIs("T1"), QOpt("B")>>) = <<"T1">>

\* the tuples of two data slots whose views may be alive together
DataPairs ==
    {<<QMut(q[1]), QRef(q[2])>> : q \in {p \in Types \X Types : p[1] # p[2]}}
    \cup {<<QRef(X), QRef(Y)>> : X \in Types, Y \in Types}

\* C5: in a tuple query over data slots ((&mut X, &Y), (&X, &Y)) the views have
\* the same number of items and the i-th items of both are the components of
\* one and the same live entity, at the same row of the same table, whenever
\* the spawns and despawns made so far have completed.
C5_SlotsAligned ==
    Running => \A q \in DataPairs :
        LET tables == QueryTables(q)
            a == ColumnsIter(tables, q[1].arg)
            b == ColumnsIter(tables, q[2].arg)
        IN /\ Len(a) = Len(b)
           /\ \A i \in DOMAIN a :
                 /\ a[i] # Unwrapped /\ b[i] # Unwrapped
                 /\ a[i].table = b[i].table
                 /\ a[i].row = b[i].row
                 /\ \E id \in OwnersOf(a[i]) :
                       /\ GetComponent(id, q[1].arg) = Some(Deref(a[i]))
                       /\ GetComponent(id, q[2].arg) = Some(Deref(b[i]))

\* C5 witness: T1 holds two entities whose A and B values all differ, the
\* younger one moved to row 0 by the despawn of a third, and T2 is registered
C5_Witness ==
    /\ Running
    /\ Registered = ArchetypeIds
    /\ Live = {1, 2}
    /\ 0 \in Range(minted)
    /\ entities[2] = [table |-> "T1", row |-> 0]
    /\ entities[1] = [table |-> "T1", row |-> 1]
    /\ vals[1][1] # vals[2][1]
    /\ vals[1][2] # vals[2][2]
    /\ vals[1][1] # vals[1][2]

\* C6: whenever the spawns and despawns made so far have completed, the id list
\* of query::<(EntityId, &T)>() is as long as the &T view and its i-th id is
\* the live entity that owns the row of the view's i-th item, whose
\* get_component::<T> value is that item.
C6_EntityIdsMatchRows ==
    Running => \A T \in Types :
        LET tables == QueryTables(<<QEntity, QRef(T)>>)
            view == ColumnsIter(tables, T)
        IN \A ids \in EntityIdData(tables) :
              /\ Len(ids) = Len(view)
              /\ \A i \in DOMAIN ids :
                    /\ ids[i] \in OwnersOf(view[i])
                    /\ GetComponent(ids[i], T) = Some(Deref(view[i]))

\* C6 witness: T1 and T2 both hold an entity, and T1's moved to row 0 when the
\* first entity of T1 was despawned
C6_Witness ==
    /\ Running
    /\ Live = {1, 2}
    /\ 0 \in Range(minted)
    /\ entities[1].table = "T2"
    /\ entities[2] = [table |-> "T1", row |-> 0]
    /\ Len(ColumnsIter(QueryTables(<<QEntity, QRef("A")>>), "A")) = 2

\* the summed row counts of a list of tables
RECURSIVE SumLen(_)
SumLen(tables) ==
    IF tables = <<>> THEN 0
    ELSE TableLen(archetypes[Head(tables)]) + SumLen(Tail(tables))

\* C7: the Option<&T> slot of query::<(&A, Option<&T>)>() yields one item per
\* row of every matched table, aligned with the &A view: the T component of
\* the same row where the table has a T column, None where it has not; its
\* item count is the summed row counts of the matched tables.
C7_OptionalSlotAligned ==
    \A T \in Types :
        LET tables == QueryTables(<<QRef("A"), QOpt(T)>>)
            a == ColumnsIter(tables, "A")
            o == ColumnsOptionalIter(tables, T)
        IN /\ Len(o) = SumLen(tables)
           /\ Len(o) = Len(a)
           /\ \A i \in DOMAIN o :
                 IF FieldIndex(a[i].table, T) = 0
                 THEN o[i] = Absent
                 ELSE o[i] = [table |-> a[i].table,
                              col |-> FieldIndex(a[i].table, T),
                              row |-> a[i].row]

\* C7 witness: T2 (no B column) comes first in the iteration order and holds a
\* row, T1 holds two, so that the Option<&B> view is None, Some, Some
C7_Witness ==
    /\ Running
    /\ order = <<"T2", "T1">>
    /\ TableLen(archetypes["T2"]) = 1
    /\ TableLen(archetypes["T1"]) = 2
    /\ ColumnsOptionalIter(order, "B")[1] = Absent
    /\ ColumnsOptionalIter(order, "B")[3] # Absent

\* the column cells of the registered tables
Cells == UNION {{<<t, k>> : k \in 1..Len(Columns(t))} : t \in ArchetypeIds}

\* C8: of one column there is never more than one exclusive view alive, and
\* never an exclusive view together with a shared one; a view is handed out
\* exactly when this stays so (a shared view whenever no exclusive view of the
\* column is alive, an exclusive view whenever no view of it is alive, whatever
\* is borrowed of the table's other columns), and a request that would break it
\* panics and hands out nothing.
C8_SingleWriterOrReaders ==
    /\ [](\A c \in Cells :
             /\ borrows[c[1]][c[2]].writers <= 1
             /\ borrows[c[1]][c[2]].writers = 1 => borrows[c[1]][c[2]].readers = 0)
    /\ [][\A t \in ArchetypeIds, T \in Types :
             LET k == FieldIndex(t, T) IN
             /\ (TableColumn(t, T) /\ k # 0) =>
                   IF borrows[t][k].writers = 0
                   THEN /\ borrows' = [borrows EXCEPT ![t][k].readers = @ + 1]
                        /\ panicked' = "none"
                   ELSE /\ borrows' = borrows
                        /\ panicked' # "none"
             /\ (TableColumnMut(t, T) /\ k # 0) =>
                   IF borrows[t][k].writers = 0 /\ borrows[t][k].readers = 0
                   THEN /\ borrows' = [borrows EXCEPT ![t][k].writers = @ + 1]
                        /\ panicked' = "none"
                   ELSE /\ borrows' = borrows
                        /\ panicked' # "none"]_vars

\* C8 witness: an exclusive view of T1's A column and a shared view of T1's B
\* column are alive together, and the request of a second view of the A column
\* has panicked
C8_Witness ==
    /\ borrows["T1"][1] = [readers |-> 0, writers |-> 1]
    /\ borrows["T1"][2] = [readers |-> 1, writers |-> 0]
    /\ panicked \in {"already borrowed", "already mutably borrowed"}

\* the calls made by the tick or submit numbered f, in the order made
CallsOf(f) == SelectSeq(log, LAMBDA e : e.ev = "call" /\ e.id = f)

\* the positions of the log at which a tick or submit begins / returns
Begins == {p \in DOMAIN log : log[p].ev = "begin"}
Ends == {p \in DOMAIN log : log[p].ev = "end"}

\* C9: a World::tick calls tick, and a World::submit calls event, on the
\* registered systems strictly in registration order, each at most once while
\* it runs and each exactly once by the time it returns.
C9_EachSystemOnceInOrder ==
    \A p \in Begins :
        LET calls == CallsOf(log[p].id) IN
        /\ Len(calls) <= Len(systems)
        /\ \A i \in DOMAIN calls : calls[i].sys = i /\ calls[i].cb = log[p].cb
        /\ (\E r \in Ends : log[r].id = log[p].id) => Len(calls) = Len(systems)

\* C9 witness: a tick of a World with two systems has returned, having called
\* the first system and then the second
C9_Witness ==
    /\ Len(systems) = 2
    /\ stack = <<>>
    /\ Len(log) = 4
    /\ log[1] = [ev |-> "begin", id |-> 1, sys |-> 0, cb |-> "tick"]
    /\ log[2].sys = 1
    /\ log[3].sys = 2
    /\ log[4].ev = "end"

\* C10: a tick or submit begun inside a callback (at position p of the log)
\* returns before the dispatch that was running the callback does anything
\* more, having called every registered system once in registration order;
\* and a dispatch inside which another ran has, when it returns, called every
\* registered system exactly once in registration order all the same.
C10_NestedDispatchCompletesFirst ==
    \A p \in Begins : log[p].id > 1 =>
        /\ \A q \in DOMAIN log : (q > p /\ log[q].id < log[p].id) =>
              \E r \in Ends :
                  /\ p < r /\ r < q
                  /\ log[r].id = log[p].id
                  /\ Len(CallsOf(log[p].id)) = Len(systems)
                  /\ \A i \in 1..Len(systems) : CallsOf(log[p].id)[i].sys = i
                  /\ \A c \in DOMAIN log :
                        (log[c].ev = "call" /\ log[c].id = log[p].id) =>
                            (p < c /\ c < r)
        /\ \A b \in Begins, e \in Ends :
              (b < p /\ p < e /\ log[b].id = log[e].id) =>
                  /\ Len(CallsOf(log[b].id)) = Len(systems)
                  /\ \A i \in 1..Len(systems) : CallsOf(log[b].id)[i].sys = i

\* C10 witness: the first of two systems submitted an event from inside its
\* tick; both systems got the event before the second system was ticked
C10_Witness ==
    /\ Len(systems) = 2
    /\ stack = <<>>
    /\ Len(log) = 8
    /\ log[1] = [ev |-> "begin", id |-> 1, sys |-> 0, cb |-> "tick"]
    /\ log[2] = [ev |-> "call", id |-> 1, sys |-> 1, cb |-> "tick"]
    /\ log[3] = [ev |-> "begin", id |-> 2, sys |-> 0, cb |-> "event"]
    /\ log[4] = [ev |-> "call", id |-> 2, sys |-> 1, cb |-> "event"]
    /\ log[5] = [ev |-> "call", id |-> 2, sys |-> 2, cb |-> "event"]
    /\ log[6] = [ev |-> "end", id |-> 2, sys |-> 0, cb |-> "event"]
    /\ log[7] = [ev |-> "call", id |-> 1, sys |-> 2, cb |-> "tick"]
    /\ log[8] = [ev |-> "end", id |-> 1, sys |-> 0, cb |-> "tick"]

\* the entity stored at position i (from 1) of the table of archetype t
RowAt(t, i) == [k \in 1..Len(Columns(t)) |-> archetypes[t].columns[k].data[i]]

\* a saved scene has been loaded into the fresh World
RoundTripDone == origin.phase = "fresh" /\ loaded # <<>>

\* the table of t holds n rows, each with a live id of its own
Reconstructed(t, n) ==
    /\ TableLen(archetypes[t]) = n
    /\ \A k \in 1..Len(Columns(t)) : Len(archetypes[t].columns[k].data) = n
    /\ \A i \in 1..n :
          Cardinality({id \in Live : entities[id] = [table |-> t, row |-> i - 1]}) = 1

\* C11 as stated: saving a scene and loading the result into a fresh World
\* with the same archetypes reconstructs, per archetype, as many entities as
\* the scene named, each equal in every field to an original.
C11_RoundTripAllFields ==
    RoundTripDone =>
        /\ loaded[1].ret = "Ok"
        /\ \A t \in Registered :
              /\ Reconstructed(t, origin.count[t])
              /\ \A i \in 1..TableLen(archetypes[t]) :
                    \E j \in DOMAIN origin.rows[t] : RowAt(t, i) = origin.rows[t][j]

\* C11 (amended): the load succeeds and reconstructs, per archetype, one
\* entity for every handle the scene recorded that was live when it was saved
\* (a handle recorded twice gives two entities), in the scene's order; each
\* equals its original in every serialized field, and a field marked
\* #[serde(skip)] holds its type's default instead.
C11_RoundTripSerializedFields ==
    RoundTripDone =>
        /\ loaded[1].ret = "Ok"
        /\ \A t \in Registered :
              /\ Reconstructed(t, Len(origin.rows[t]))
              /\ \A i \in DOMAIN origin.rows[t] :
                    \A k \in 1..Len(Columns(t)) :
                        RowAt(t, i)[k] = IF k \in Skipped(t) THEN DefaultValue
                                         ELSE origin.rows[t][i][k]

\* C11 witness: a scene with entities of both archetypes, saved after a
\* despawn so that the ids differ, was loaded into the fresh World; the
\* entity of T3 had a value other than the default in its skipped field
C11_Witness ==
    /\ RoundTripDone
    /\ loaded[1].ret = "Ok"
    /\ Registered = RoundTripIds
    /\ Len(origin.rows["T2"]) = 1
    /\ Len(origin.rows["T3"]) = 1
    /\ origin.rows["T3"][1][2] # DefaultValue
    /\ origin.rows["T3"][1][1] # DefaultValue
    /\ RowAt("T3", 1)[1] = origin.rows["T3"][1][1]
    /\ Live = {0, 1}

\* C12 as stated: a load whose input has a key matching no registered table
\* returns an error (it does not panic, and does not succeed without the
\* entities under that key).
C12_UnknownKeyReturnsError ==
    \A l \in DOMAIN loaded : loaded[l].unknown => loaded[l].ret = "Err"

\* C13 as stated: a load whose input has a row that is malformed for its
\* archetype returns an error and does not panic.
C13_MalformedRowReturnsError ==
    \A l \in DOMAIN loaded :
        loaded[l].malformed => (loaded[l].ret = "Err" /\ panicked = "none")

\* C14 as stated: the Scene a successful load returns holds exactly the ids
\* minted for the rows it loaded, one handle per row, each of them live.
C14_SceneHoldsMintedIds ==
    \A l \in DOMAIN loaded :
        loaded[l].ret = "Ok" =>
            /\ loaded[l].scene = loaded[l].ids
            /\ \A i \in DOMAIN loaded[l].scene :
                  l = Len(loaded) => loaded[l].scene[i] \in Live

\* nothing was inserted, written or removed under T by the recorded
\* operations strictly between positions a and b
Quiet(T, a, b) ==
    \A r \in DOMAIN reslog :
        (a < r /\ r < b /\ reslog[r].ty = T) =>
            reslog[r].op \notin {"with_resource", "write", "remove"}

\* a resource of type T was inserted before position k and not removed since
StoredAt(T, k) ==
    \E i \in DOMAIN reslog :
        /\ i < k
        /\ reslog[i].ty = T
        /\ reslog[i].op = "with_resource"
        /\ \A r \in DOMAIN reslog :
              (i < r /\ r < k /\ reslog[r].ty = T) => reslog[r].op # "remove"

\* C15: after with_resource::<T>(v1) and then with_resource::<T>(v2), get and
\* get_mut of T yield v2 (and so never v1 when it differs) for as long as T is
\* not inserted, written or removed again; and an insert under T leaves what
\* get yields for any other type U as it was.
C15_SecondInsertReplaces ==
    \A j \in DOMAIN reslog : reslog[j].op = "with_resource" =>
        /\ \A i, k \in DOMAIN reslog :
              ( /\ i < j /\ j < k
                /\ reslog[i].op = "with_resource"
                /\ reslog[i].ty = reslog[j].ty
                /\ reslog[k].ty = reslog[j].ty
                /\ reslog[k].op \in {"get", "get_mut"}
                /\ Quiet(reslog[j].ty, j, k) )
              => reslog[k].res = reslog[j].arg
        /\ \A a, b \in DOMAIN reslog :
              ( /\ a < j /\ j < b
                /\ reslog[a].op = "get" /\ reslog[b].op = "get"
                /\ reslog[a].ty = reslog[b].ty
                /\ reslog[a].ty # reslog[j].ty
                /\ Quiet(reslog[a].ty, a, b) )
              => reslog[b].res = reslog[a].res

\* C15 witness: R was inserted twice with different values, and reading R
\* gave the second (the Ref is still alive)
C15_Witness ==
    /\ Len(reslog) = 3
    /\ reslog[1] = [op |-> "with_resource", ty |-> "R", arg |-> Some(1), res |-> None]
    /\ reslog[2] = [op |-> "with_resource", ty |-> "R", arg |-> Some(2), res |-> None]
    /\ reslog[3] = [op |-> "get", ty |-> "R", arg |-> None, res |-> Some(2)]
    /\ resrefs["R"].readers = 1

\* C16: get and get_mut return None exactly when no resource of the type is
\* stored (never inserted, or removed since); remove, which can only be called
\* with no guard alive, returns the value stored (the one last inserted or
\* written) and None when there is none, so that after a remove both get and
\* a second remove return None.
C16_NoneIffNotStored ==
    \A k \in DOMAIN reslog :
        /\ reslog[k].op \in {"get", "get_mut"} =>
              (reslog[k].res = None <=> ~StoredAt(reslog[k].ty, k))
        /\ reslog[k].op = "remove" =>
              IF StoredAt(reslog[k].ty, k)
              THEN \E i \in DOMAIN reslog :
                      /\ i < k
                      /\ reslog[i].ty = reslog[k].ty
                      /\ reslog[i].op \in {"with_resource", "write"}
                      /\ Quiet(reslog[k].ty, i, k)
                      /\ reslog[k].res = reslog[i].arg
              ELSE reslog[k].res = None
        /\ \A g \in DOMAIN reslog :
              ( /\ reslog[k].op = "remove"
                /\ k < g
                /\ reslog[g].ty = reslog[k].ty
                /\ reslog[g].op \in {"get", "get_mut", "remove"}
                /\ Quiet(reslog[k].ty, k, g) )
              => reslog[g].res = None

\* C16 witness: R was inserted and removed, the remove returning the value;
\* the get and the second remove that followed returned None
C16_Witness ==
    /\ Len(reslog) = 4
    /\ reslog[1] = [op |-> "with_resource", ty |-> "R", arg |-> Some(2), res |-> None]
    /\ reslog[2] = [op |-> "remove", ty |-> "R", arg |-> None, res |-> Some(2)]
    /\ reslog[3] = [op |-> "get", ty |-> "R", arg |-> None, res |-> None]
    /\ reslog[4] = [op |-> "remove", ty |-> "R", arg |-> None, res |-> None]
    /\ resources = <<>>

\* C17: a spawn of an archetype that is not registered panics with
\* "Unregistered archetype" and leaves the id counter, the identity map and
\* every table as they were; no other step ends in that panic.
C17_SpawnUnregisteredPanicsUnchanged ==
    [][ /\ \A t \in ArchetypeIds \ Registered : \A entity \in EntityValues(t) :
              Spawn(t, entity) =>
                  /\ panicked' = "Unregistered archetype"
                  /\ UNCHANGED <<next_id, entities, archetypes>>
        /\ (panicked' = "Unregistered archetype" /\ Running) =>
              /\ UNCHANGED <<next_id, entities, archetypes>>
              /\ \E t \in ArchetypeIds \ Registered : \E entity \in EntityValues(t) :
                    Spawn(t, entity)
      ]_vars

\* C17 witness: with T1 registered and holding an entity, a spawn of the
\* unregistered T2 has panicked
C17_Witness ==
    /\ panicked = "Unregistered archetype"
    /\ Registered = {"T1"}
    /\ next_id = 1
    /\ Live = {0}
    /\ TableLen(archetypes["T1"]) = 1

\* C19: a despawn of an id that has no mapping does not panic and changes
\* nothing: every table, every mapping and the id counter stay as they are
\* (so a second despawn of an id adds nothing to the first).
C19_DespawnAbsentIsNoOp ==
    [][ \A T \in ArchetypeIds, id \in 0..(MaxIds - 1) :
           (id \notin Live /\ Despawn(T, id)) =>
               UNCHANGED <<next_id, entities, archetypes, panicked>>
      ]_vars

\* C19 witness: id 0 was despawned and id 2 never issued, while the entity
\* with id 1 is still stored, in a World that runs
C19_Witness ==
    /\ Running
    /\ minted = <<0, 1>>
    /\ Live = {1}
    /\ next_id = 2
    /\ entities[1].row = 0
    /\ TableLen(archetypes[entities[1].table]) = 1

\* C18 as stated: registering an archetype that is already registered (with
\* register or register_unsaved) fails loudly: it panics, and the table
\* stored for the archetype, with its rows, stays as it is.
C18_SecondRegistrationFails ==
    [][ \A t \in Registered, saved \in BOOLEAN :
           Register(t, saved) => (panicked' # "none" /\ archetypes' = archetypes)
      ]_vars

\* C20: while the World runs, get_component and get_component_mut of an id
\* that is not live, or whose archetype has no field of type T, return None
\* and do not panic; for a live id whose archetype has a T field they return
\* the entity's own T value, get_component unless a RefMut of that column is
\* alive and get_component_mut unless any guard of it is.
C20_GetComponentNoneOrOwnValue ==
    Running =>
        \A id \in 0..(MaxIds - 1), T \in Types :
            IF id \notin Live \/ FieldIndex(entities[id].table, T) = 0
            THEN /\ ~GetComponentPanics(id, T)
                 /\ ~GetComponentMutPanics(id, T)
                 /\ GetComponent(id, T) = None
                 /\ GetComponentMut(id, T) = None
            ELSE LET t == entities[id].table
                     k == FieldIndex(t, T)
                 IN /\ borrows[t][k].writers = 0 =>
                          /\ ~GetComponentPanics(id, T)
                          /\ GetComponent(id, T) = Some(vals[id][k])
                    /\ borrows[t][k] = Unborrowed =>
                          /\ ~GetComponentMutPanics(id, T)
                          /\ GetComponentMut(id, T) = Some(vals[id][k])

\* C20 witness: id 0 was despawned; the entity with id 1, of T2, took its row
\* and has no B, and its A was written after the spawn; the entity with id 2,
\* of T1, has its A column mutably borrowed and its B column free
C20_Witness ==
    /\ Running
    /\ minted = <<0, 1, 2>>
    /\ Live = {1, 2}
    /\ entities[1] = [table |-> "T2", row |-> 0]
    /\ entities[2].table = "T1"
    /\ GetComponent(0, "A") = None
    /\ GetComponent(1, "B") = None
    /\ GetComponent(1, "A") = Some(2)
    /\ borrows["T1"][1].writers = 1
    /\ GetComponentPanics(2, "A")
    /\ GetComponent(2, "B") = Some(1)
    /\ ~GetComponentMutPanics(2, "B")

\* the items of the recorded pushes made with type T, in push order
PushedOf(T) ==
    LET sel == SelectSeq(pushes, LAMBDA p : p.ty = T)
    IN [i \in DOMAIN sel |-> sel[i].item]

\* C21: a column holds exactly the items pushed with the type it is bound to,
\* in push order: a push of any other type leaves length and contents as they
\* are, a push of the bound type appends; and downcast_ref / downcast_mut for
\* any other type return None.
C21_PushOnlyOfBoundType ==
    vecs # <<>> =>
        \A c \in {vecs.typed, vecs.uninit} :
            /\ c.data = PushedOf(vecs.bound)
            /\ \A U \in Types \ {vecs.bound} :
                  /\ VecAnyDowncastRef(c, U) = None
                  /\ VecAnyDowncastMut(c, U) = None

\* C21 witness: a column bound to A was pushed an A, a B and an A again and
\* holds the two A items
C21_Witness ==
    /\ vecs # <<>>
    /\ vecs.bound = "A"
    /\ pushes = <<[ty |-> "A", item |-> 1], [ty |-> "B", item |-> 2],
                  [ty |-> "A", item |-> 2]>>
    /\ vecs.typed.data = <<1, 2>>
    /\ VecAnyDowncastRef(vecs.typed, "B") = None

\* C29: after the same pushes the column made with new::<T>() and the one
\* made with new_uninit(TypeId of T) show the same through downcast_ref and
\* downcast_mut for every type: for T the items pushed with T in push order
\* (an empty slice when there are none).
C29_NewAndUninitEquivalent ==
    vecs # <<>> =>
        /\ \A U \in Types :
              /\ VecAnyDowncastRef(vecs.uninit, U) = VecAnyDowncastRef(vecs.typed, U)
              /\ VecAnyDowncastMut(vecs.uninit, U) = VecAnyDowncastMut(vecs.typed, U)
        /\ VecAnyDowncastRef(vecs.uninit, vecs.bound) = Some(PushedOf(vecs.bound))
        /\ VecAnyDowncastMut(vecs.uninit, vecs.bound) = Some(PushedOf(vecs.bound))

\* C29 witness: three items were pushed to both columns (test_normal and
\* test_uninit)
C29_Witness ==
    /\ vecs # <<>>
    /\ vecs.bound = "A"
    /\ pushes = <<[ty |-> "A", item |-> 1], [ty |-> "A", item |-> 2],
                  [ty |-> "A", item |-> 1]>>
    /\ VecAnyDowncastRef(vecs.uninit, "A") = Some(<<1, 2, 1>>)
    /\ VecAnyDowncastRef(vecs.typed, "A") = Some(<<1, 2, 1>>)

\* C30 as stated: a column made with new_uninit accepts its first push and is
\* from then on bound to the type of that push: it holds the items pushed
\* with that type, and accessors for any other type return None.
C30_FirstPushBinds ==
    (vecs # <<>> /\ pushes # <<>>) =>
        /\ vecs.uninit.ty = pushes[1].ty
        /\ vecs.uninit.data = PushedOf(pushes[1].ty)
        /\ \A U \in Types \ {pushes[1].ty} : VecAnyDowncastRef(vecs.uninit, U) = None

\* C30 (amended): a column made with new_uninit(ty) is bound to ty from its
\* creation.  Its first push::<T> is accepted exactly when T is ty (the push
\* that allocates its buffer); pushes of any other type are no-ops before and
\* after that, and accessors for any other type return None.
C30_BoundAtCreation ==
    vecs # <<>> =>
        /\ vecs.uninit.ty = vecs.bound
        /\ vecs.uninit.data = PushedOf(vecs.bound)
        /\ vecs.uninit.ptr <=> (PushedOf(vecs.bound) # <<>>)
        /\ \A U \in Types \ {vecs.bound} :
              /\ VecAnyDowncastRef(vecs.uninit, U) = None
              /\ VecAnyDowncastMut(vecs.uninit, U) = None

\* C30 witness: a column made with new_uninit for B was first pushed an A,
\* which it did not take, and then a B, which it did
C30_Witness ==
    /\ vecs # <<>>
    /\ vecs.bound = "B"
    /\ pushes = <<[ty |-> "A", item |-> 1], [ty |-> "B", item |-> 2]>>
    /\ vecs.uninit.data = <<2>>
    /\ vecs.uninit.ptr

\* C22: while the World runs (every spawn, despawn and Scene::load so far has
\* completed), every column of every table holds exactly table.len() rows, so
\* the columns of one table are equally long.
C22_ColumnsHoldLenRows ==
    Running =>
        \A t \in Registered :
            \A k \in 1..Len(archetypes[t].columns) :
                Len(archetypes[t].columns[k].data) = TableLen(archetypes[t])

\* C22 witness: T1, with two columns, holds two rows after spawns, a
\* successful load and a despawn
C22_Witness ==
    /\ Running
    /\ "T1" \in Registered
    /\ TableLen(archetypes["T1"]) = 2
    /\ Len(archetypes["T1"].columns[2].data) = 2
    /\ Len(loaded) = 1
    /\ loaded[1].ret = "Ok"
    /\ Len(minted) = 3
    /\ Cardinality(Live) = 2

\* C23: a despawn that completes for a live entity at row r of table X takes
\* the entity's mapping out, makes X one row shorter and leaves every other
\* table as it is; the entity that was at X's last row (if that is not row r)
\* is mapped to row r afterwards, and no other mapping changes.
C23_DespawnRepointsOnlyLastRow ==
    [][ \A T \in ArchetypeIds, id \in 0..(MaxIds - 1) :
           (id \in Live /\ Despawn(T, id) /\ panicked' = "none") =>
               LET X == entities[id].table
                   r == entities[id].row
                   last == TableLen(archetypes[X]) - 1
               IN /\ DOMAIN entities' = Live \ {id}
                  /\ TableLen(archetypes'[X]) = TableLen(archetypes[X]) - 1
                  /\ \A t \in Registered \ {X} : archetypes'[t] = archetypes[t]
                  /\ \A e \in Live \ {id} :
                        entities'[e] =
                            IF entities[e].table = X /\ entities[e].row = last /\ last # r
                            THEN [table |-> X, row |-> r]
                            ELSE entities[e]
      ]_vars

\* C23 witness: of three entities, two of T1 and one of T2, the first of T1
\* was despawned: the second of T1 took row 0 and the mapping of the entity
\* of T2 is as it was
C23_Witness ==
    /\ Running
    /\ minted = <<0, 1, 2>>
    /\ Live = {1, 2}
    /\ entities[1] = [table |-> "T1", row |-> 0]
    /\ entities[2] = [table |-> "T2", row |-> 0]
    /\ TableLen(archetypes["T1"]) = 1
    /\ TableLen(archetypes["T2"]) = 1

\* the queries with a &mut T slot whose view is indexed
MutQueries ==
    {<<QMut(T)>> : T \in Types}
    \cup {<<QMut(T), QWithout(U)>> : T \in Types, U \in Types}
    \cup {<<QMut(T), QIs(a)>> : T \in Types, a \in ArchetypeIds}

\* the number of rows in the first n of the tables
RowsBefore(tables, n) == SumLen(SubSeq(tables, 1, n))

\* C24: get_mut(i) on the &mut T view of a query returns the element at
\* offset i of the concatenation of the matched tables' T columns: the row
\* i - n of the table before which n rows lie and which has more than i - n
\* rows; it returns None exactly when i is at least the total number of rows.
C24_GetMutIndexesConcatenation ==
    Running =>
        \A q \in MutQueries : \A i \in 0..MaxIds :
            LET tables == QueryTables(q)
                T == q[1].arg
                total == RowsBefore(tables, Len(tables))
                got == ColumnsMutGetMut(tables, T, i)
            IN /\ (got = None) <=> (i >= total)
               /\ \A j \in 1..Len(tables) :
                     ( /\ RowsBefore(tables, j - 1) <= i
                       /\ i < RowsBefore(tables, j) )
                     => got = Some([table |-> tables[j],
                                    col |-> ColumnIndex(archetypes[tables[j]], T),
                                    row |-> i - RowsBefore(tables, j - 1)])

\* C24 witness: T1 is iterated first and has one row, T2 has two; index 2 of
\* the &mut A view is the second row of T2 and index 3 is past the end
C24_Witness ==
    /\ Running
    /\ order = <<"T1", "T2">>
    /\ TableLen(archetypes["T1"]) = 1
    /\ TableLen(archetypes["T2"]) = 2
    /\ ColumnsMutGetMut(QueryTables(<<QMut("A")>>), "A", 2)
           = Some([table |-> "T2", col |-> 1, row |-> 1])
    /\ ColumnsMutGetMut(QueryTables(<<QMut("A")>>), "A", 3) = None

\* C25 as stated: first() on the &mut T view returns the same element as
\* get_mut(0), so None only when every matched table is empty.
C25_FirstIsGetMutZero ==
    Running =>
        \A q \in MutQueries :
            ColumnsMutFirst(QueryTables(q), q[1].arg)
                = ColumnsMutGetMut(QueryTables(q), q[1].arg, 0)

\* C26: while the World runs, query_one on a tuple gives every data slot the
\* component at row 0 of one and the same table, a table the tuple's filter
\* matches and the first of those in iteration order that has a row (empty
\* matching tables are passed over); it is only when no matching table has a
\* row that the slots have nothing to give (the call panics).
C26_QueryOneSlotsShareTable ==
    Running =>
        \A q \in OneQueries :
            LET tables == QueryOneTables(q)
                rows == SelectSeq(tables, LAMBDA ty : TableLen(archetypes[ty]) > 0)
            IN IF rows = <<>>
               THEN \A i \in DataSlots(q) : QueryOneData(q[i], tables) = Unwrapped
               ELSE \A i \in DataSlots(q) :
                       QueryOneData(q[i], tables)
                           = [table |-> rows[1],
                              col |-> FieldIndex(rows[1], q[i].arg),
                              row |-> 0]

\* C26 witness: T1 and T3 both match (&A, &mut B); T1, iterated first of the
\* two, is empty and T3 has two rows, so both slots are row 0 of T3
C26_Witness ==
    /\ Running
    /\ Registered = {"T1", "T2", "T3"}
    /\ QueryOneTables(<<QRef("A"), QMut("B")>>) = <<"T1", "T3">>
    /\ TableLen(archetypes["T1"]) = 0
    /\ TableLen(archetypes["T3"]) = 2
    /\ minted = <<0, 1, 2>>
    /\ QueryOneData(QRef("A"), <<"T1", "T3">>) = [table |-> "T3", col |-> 1, row |-> 0]
    /\ QueryOneData(QMut("B"), <<"T1", "T3">>) = [table |-> "T3", col |-> 2, row |-> 0]

\* the handles a scene records, in its order, of entities that are live and
\* of archetype t
RecordedLiveOf(scene, t) ==
    SelectSeq(scene, LAMBDA id : id \in DOMAIN entities /\ entities[id].table = t)

\* C27: a Scene::save that completes writes, for every archetype of which
\* the scene records a live entity, one entry under that archetype's key and
\* no other entry; the entry holds one row per recorded live handle of that
\* archetype (a handle recorded twice gives two rows, a handle without a
\* mapping none), in the scene's order, and each row is the serialization of
\* the values that entity holds at the save.
C27_SaveOneRowPerLiveHandle ==
    [][\A scene \in Scenes :
          (Save(scene) /\ panicked' = "none") =>
              /\ \A t \in Registered :
                    Cardinality({i \in DOMAIN document' : document'[i].key = t})
                        = IF RecordedLiveOf(scene, t) # <<>> THEN 1 ELSE 0
              /\ \A i \in DOMAIN document' :
                    /\ document'[i].key \in Registered
                    /\ document'[i].rows
                          = [j \in DOMAIN RecordedLiveOf(scene, document'[i].key) |->
                                Serialize(document'[i].key,
                                          vals[RecordedLiveOf(scene, document'[i].key)[j]])]]_vars

\* C27 witness: a save completed in a World where one of three entities was
\* despawned; the scene recorded one entity of T3 twice, and the document has
\* the single entry of T3 with two equal rows
C27_Witness ==
    /\ Running
    /\ origin.phase = "saved"
    /\ Len(minted) = 3
    /\ Cardinality(Live) = 2
    /\ \E id \in Live : entities[id].table = "T2"
    /\ Len(document) = 1
    /\ document[1].key = "T3"
    /\ Len(document[1].rows) = 2
    /\ \E id \in Live : /\ entities[id].table = "T3"
                        /\ vals[id][1] # DefaultValue
                        /\ document[1].rows = <<Serialize("T3", vals[id]), Serialize("T3", vals[id])>>

\* the registered tables made by register_unsaved
UnsavedTables == {t \in Registered : ~archetypes[t].saved}

\* C28: a table made by register_unsaved takes no part in scenes.  A
\* Scene::save over a scene that records a live entity of such a table (a
\* scene built by from_world included) ends in a panic and writes nothing, so
\* no document ever has an entry of that archetype; and no Scene::load adds
\* a row to such a table: a load that reaches its key ends in a panic.
C28_UnsavedTablesStayOutOfScenes ==
    [][/\ \A scene \in Scenes \cup ScenesFromWorld :
             (Save(scene) /\ \E t \in UnsavedTables : RecordedLiveOf(scene, t) # <<>>)
                 => (panicked' = "unwrap on None" /\ document' = document)
       /\ \A i \in DOMAIN document' :
             document'[i].key \in DOMAIN archetypes'
                 => archetypes'[document'[i].key].saved
       /\ \A input \in LoadInputs(Room, {1}) :
             Load(input) =>
                 /\ \A t \in UnsavedTables : archetypes'[t] = archetypes[t]
                 /\ (\E t \in UnsavedTables :
                        /\ \E i \in DOMAIN input : input[i].key = t
                        /\ \A i \in DOMAIN input :
                              input[i].key \in Registered /\ ~input[i].trunc
                                  /\ \A j \in DOMAIN input[i].rows :
                                        Deserializes(input[i].key, input[i].rows[j]))
                       => panicked' = "unwrap on None"]_vars

\* C28 witness: T1 was registered with register_unsaved and T2 with
\* register, each has an entity, and a save of a scene naming T1's entity
\* has panicked without writing a document
C28_Witness ==
    /\ panicked = "unwrap on None"
    /\ Registered = {"T1", "T2"}
    /\ UnsavedTables = {"T1"}
    /\ TableLen(archetypes["T1"]) = 1
    /\ TableLen(archetypes["T2"]) = 1
    /\ loaded = <<>>
    /\ document = <<>>
    /\ origin.phase = "none"

\* every Scene::load made so far returned Ok
LoadsSucceeded == \A i \in DOMAIN loaded : loaded[i].ret = "Ok"

\* C31: while the World runs and every Scene::load so far has succeeded (the
\* spawns, despawns and loads made have all completed), the identity map
\* restricted to a registered table is a bijection between the live ids of
\* that table and its rows 0..len-1: every row has exactly one live id, and
\* every live id is mapped to a registered table and a row below its len.
C31_IdentityMapBijection ==
    (Running /\ LoadsSucceeded) =>
        /\ \A id \in Live :
              /\ entities[id].table \in Registered
              /\ entities[id].row < TableLen(archetypes[entities[id].table])
        /\ \A t \in Registered :
              \A r \in 0..(TableLen(archetypes[t]) - 1) :
                  Cardinality({id \in Live : entities[id] = [table |-> t, row |-> r]}) = 1

\* C31 witness: T1 holds two entities, one of them minted by a successful
\* load, after an entity spawned before them was despawned from row 0
C31_Witness ==
    /\ Running
    /\ Len(loaded) = 1
    /\ loaded[1].ret = "Ok"
    /\ loaded[1].ids = <<2>>
    /\ minted = <<0, 1, 2>>
    /\ Live = {1, 2}
    /\ entities[1] = [table |-> "T1", row |-> 1]
    /\ entities[2] = [table |-> "T1", row |-> 0]

\* C32 as stated: a despawn::<T>(id) of a live id whose entity is of another
\* archetype than T panics and leaves the World as it was: the id keeps its
\* mapping and no table loses a row.
C32_MismatchedDespawnLeavesWorld ==
    [][\A T \in ArchetypeIds, id \in 0..(MaxIds - 1) :
          (Despawn(T, id) /\ id \in Live /\ entities[id].table # T) =>
              /\ panicked' # "none"
              /\ entities' = entities
              /\ archetypes' = archetypes]_vars

\* C33 as stated: a spawn or a despawn on archetype t made while a view of a
\* column of t's table is alive panics and leaves t's table sound: its row
\* count is the length of each of its columns and the number of ids mapped
\* into it.
C33_BorrowedTableStaysSound ==
    [][\A t \in ArchetypeIds :
          (/\ t \in Registered
           /\ FirstBorrowed(t) # 0
           /\ \/ Spawn(t, [k \in 1..Len(Columns(t)) |-> 1])
              \/ \E id \in Live : entities[id].table = t /\ Despawn(t, id)) =>
              /\ panicked' # "none"
              /\ \A k \in 1..Len(archetypes'[t].columns) :
                    Len(archetypes'[t].columns[k].data) = TableLen(archetypes'[t])
              /\ Cardinality({id \in DOMAIN entities' : entities'[id].table = t})
                    = TableLen(archetypes'[t])]_vars

\* C34 as stated: when a Scene::load has returned an error, every table's
\* row count still equals the number of live ids mapped into it (no table
\* has gained a row without an identity-map entry).
C34_FailedLoadLeavesTablesSound ==
    (Running /\ Len(loaded) = 1 /\ loaded[1].ret = "Err") =>
        \A t \in Registered :
            TableLen(archetypes[t])
                = Cardinality({id \in Live : entities[id].table = t})

\* the frames in which the tick of a with_system_mut system is executing
SystemMutRuns ==
    {f \in 1..Len(stack) :
        /\ stack[f].active
        /\ stack[f].kind = "tick"
        /\ stack[f].list[stack[f].idx] = "system_mut"}

\* C35: a with_system_mut system is ticked once, at its place in registration
\* order, by every World::tick that returns; no tick or submit is ever begun
\* from it while an event is dispatched (it has no event callback); its tick
\* is never executing twice at once; and the only panic of dispatching is
\* "already borrowed", raised when a tick begun inside that system's own tick
\* comes to call it again.
C35_SystemMutTickedOnceNeverReentered ==
    /\ \A p \in Begins, r \in Ends :
          (log[p].id = log[r].id /\ log[p].cb = "tick") =>
              \A i \in 1..Len(systems) : systems[i] = "system_mut" =>
                  /\ Cardinality({c \in DOMAIN log :
                        /\ log[c].ev = "call"
                        /\ log[c].id = log[p].id
                        /\ log[c].sys = i}) = 1
                  /\ CallsOf(log[p].id)[i] = [ev |-> "call", id |-> log[p].id,
                                              sys |-> i, cb |-> "tick"]
    /\ \A f \in 1..(Len(stack) - 1) :
          ~(stack[f].kind = "event" /\ stack[f].list[stack[f].idx] = "system_mut")
    /\ \A f, g \in SystemMutRuns : stack[f].idx = stack[g].idx => f = g
    /\ ~Running =>
          /\ panicked = "already borrowed"
          /\ ~Top.active
          /\ Top.kind = "tick"
          /\ \E f \in SystemMutRuns : f < Len(stack) /\ stack[f].idx = Top.idx

\* C35 witness: the second of two systems is a with_system_mut system; its
\* tick called World::tick, which ticked the first system again and panicked
\* when it came to the second
C35_Witness ==
    /\ systems = <<"ticker", "system_mut">>
    /\ panicked = "already borrowed"
    /\ Len(stack) = 2
    /\ stack[1].active /\ stack[1].idx = 2
    /\ stack[2].idx = 2
    /\ Len(log) = 6
    /\ log[3] = [ev |-> "call", id |-> 1, sys |-> 2, cb |-> "tick"]
    /\ log[4] = [ev |-> "begin", id |-> 2, sys |-> 0, cb |-> "tick"]
    /\ log[5] = [ev |-> "call", id |-> 2, sys |-> 1, cb |-> "tick"]
    /\ log[6] = [ev |-> "call", id |-> 2, sys |-> 2, cb |-> "tick"]

\* the data slots of q of the given kind whose output is the first element of
\* column k of table t
SlotsAt(q, kind, t, k) ==
    {i \in DataSlots(q) :
        /\ q[i].kind = kind
        /\ QueryOneData(q[i], QueryOneTables(q)) = [table |-> t, col |-> k, row |-> 0]}

\* C36: a query_one on a tuple with data slots that returns has borrowed,
\* for each slot, the column of the output's table, a registered table that
\* satisfies every filter of the tuple, and nothing else; one that panics
\* leaves the borrows as they were; and when no table that satisfies the
\* filter has a row, it panics on the unwrap, while query on the same tuple
\* finds every column it needs free to borrow and its views hold no item.
C36_QueryOneFilteredOrPanics ==
    [][\A q \in OneQueries :
          QueryOne(q) =>
              LET tables == QueryOneTables(q)
                  rows == SelectSeq(tables, LAMBDA ty : TableLen(archetypes[ty]) > 0)
              IN
              /\ panicked' = "none" =>
                    /\ rows # <<>>
                    /\ \A i \in DataSlots(q) :
                          /\ QueryOneData(q[i], tables).table \in Registered
                          /\ \A j \in 1..Len(q) :
                                SlotFilter(q[j], QueryOneData(q[i], tables).table)
                    /\ \A t \in DOMAIN borrows : \A k \in DOMAIN borrows[t] :
                          borrows'[t][k] =
                              [readers |-> borrows[t][k].readers
                                              + Cardinality(SlotsAt(q, "ref", t, k)),
                               writers |-> borrows[t][k].writers
                                              + Cardinality(SlotsAt(q, "mut", t, k))]
              /\ panicked' # "none" => borrows' = borrows
              /\ rows = <<>> =>
                    /\ panicked' = "unwrap on None"
                    /\ \A i \in DataSlots(q) :
                          /\ ColumnsIter(QueryTables(q), q[i].arg) = <<>>
                          /\ \A n \in 1..Len(QueryTables(q)) :
                                borrows[QueryTables(q)[n]]
                                       [FieldIndex(QueryTables(q)[n], q[i].arg)]
                                    = Unborrowed]_vars

\* C36 witness: T1 and T3 both have the columns of (&A, &mut B) and T1 holds
\* an entity whose A is borrowed; query_one::<(&A, &mut B, Is<T3>)>() has
\* panicked on the unwrap, T3 being empty, and T1's guard is the only one
C36_Witness ==
    /\ panicked = "unwrap on None"
    /\ Registered = {"T1", "T2", "T3"}
    /\ TableLen(archetypes["T1"]) = 1
    /\ TableLen(archetypes["T3"]) = 0
    /\ borrows["T1"][1] = [readers |-> 1, writers |-> 0]
    /\ borrows["T1"][2] = Unborrowed
    /\ borrows["T3"] = <<Unborrowed, Unborrowed>>
    /\ borrows["T2"] = <<Unborrowed>>

\* the quantity of an item the inventory inv holds
Stored(inv, item) == UnwrapOrDefault(InventoryGet(inv, item))

\* C37: a Craft(index, rarities) message adds an item or a piece of equipment
\* only if the index names a recipe, the rarities list gives a rarity for
\* every input of the recipe, and for every input the quantity asked of it
\* at that rarity was held and has been taken out of the inventory; and no
\* quantity held afterwards is below zero.
C37_CraftOutputNeedsInputsRemoved ==
    [][/\ (\/ Len(equipment') > Len(equipment)
           \/ \E item \in DOMAIN inventory' : inventory'[item] > Stored(inventory, item))
             => \A index \in 0..Len(Recipes), rarities \in CraftRarities :
                  Craft(index, rarities) =>
                     /\ index < Len(Recipes)
                     /\ \A i \in DOMAIN Recipes[index + 1].inputs :
                           /\ i <= Len(rarities)
                           /\ Stored(inventory, InputItem(Recipes[index + 1], rarities, i))
                                 >= Recipes[index + 1].inputs[i].quantity
                           /\ Stored(inventory', InputItem(Recipes[index + 1], rarities, i))
                                 = Stored(inventory, InputItem(Recipes[index + 1], rarities, i))
                                      - Recipes[index + 1].inputs[i].quantity
       /\ \A item \in DOMAIN inventory' : inventory'[item] >= 0]_vars

\* C37 witness: three uncommon ingots were crafted into a sword; the message
\* sent first sets the ingots' stack to nothing
C37_Witness ==
    /\ Running
    /\ Len(equipment) = 1
    /\ Len(sent) = 2
    /\ sent[1] = SetStack([kind |-> "CopperIngot", rarity |-> "Uncommon"], 0)
    /\ sent[2].msg = "AddEquipment"
    /\ sent[2].piece.rarity = "Rare"
    /\ Len(equipment[1].passives) = 3

\* a complete frame is at the head of the buffer: the four bytes of the
\* length and that many bytes after them
HeadComplete ==
    /\ Len(buffer) >= 4
    /\ Len(buffer) >= U32FromBeBytes(SubSeq(buffer, 1, 4)) + 4

\* C38: whenever a complete length-prefixed frame is at the head of the
\* receive buffer, Connection::get eventually removes it and returns its
\* bundle, so that frames received after it are not held back forever (for
\* as long as the client's loop has not been stopped).
C38_CompleteFrameEventuallyRemoved ==
    \A n \in 0..MaxFrames :
        (HeadComplete /\ Len(bundles) = n) ~> (Len(bundles) > n \/ stopped)
=============================================================================
